---- MODULE Spec2Model ----
(***************************************************************************)
(* The chat route of the portfolio chatbot (src/app/api/chat/route.ts):    *)
(* the module-level initialization guard (initialize, its startup call and *)
(* the build it runs) and the POST handler (validation, system_check,      *)
(* streaming and non-streaming chat).                                      *)
(*                                                                         *)
(* Scheduling: JavaScript runs one job at a time, so an action is the code *)
(* between two suspension points.  A task is what the event loop starts on *)
(* an I/O completion, a timer or an incoming request; a reaction is the    *)
(* continuation of an await (or a .catch handler) on a promise that has    *)
(* settled.  Reactions are microtasks: all of them run, in some order,     *)
(* before the event loop takes the next task (TaskReady).                  *)
(***************************************************************************)
EXTENDS Integers, Sequences, FiniteSets, TLC

\* ------------------------------------------------------------------ bounds
NumRequests == 2      \* request slots, numbered in order of arrival
MaxBuilds == 3        \* initialize() starts at most this many builds
MaxUnits == 1         \* longest cleaned answer, in UTF-16 code units
MaxChars == 3         \* longest answer whose content is followed, in characters
MaxParts == 2      \* pieces in a raw completion
MaxOperand == 12   \* greatest operand of the arithmetic questions tried
MaxHandlers == 2   \* response handlers the client starts
MaxChunks == 2     \* chunks the client reads from one stream
WelcomeChars == 2  \* characters of the welcome message followed

Requests == 1..NumRequests
BuildIds == 1..MaxBuilds
TimeoutTicks == 1     \* ticks of the clock in the 90000 ms of line 549
MaxWait == TimeoutTicks + 1   \* waits in initialize() are counted up to here
Null == 0             \* null (vectorStore, chain, initPromise)

\* --------------------------------------------------------------- constants
MODEL_NAME == "deepseek-r1:1.5b"
Undefined == "<undefined>"    \* the body has no message property
Unread == "<unread>"          \* the body has not been read (yet)
ChatMessage == "What are your skills?"
\* The request bodies tried: { message?, stream = false }.
Bodies ==
    {[message |-> Undefined, stream |-> FALSE],
     [message |-> "", stream |-> FALSE],
     [message |-> "system_check", stream |-> FALSE],
     [message |-> ChatMessage, stream |-> FALSE],
     [message |-> ChatMessage, stream |-> TRUE]}
TimeoutMessage == "Request timed out after 90 seconds"
LoadError == "Failed to load CV data"               \* line 105
BackendError == "fetch failed"    \* what the libraries throw when Ollama is down
LlmErrors == {BackendError}
ProbeOutcomes ==
    {"found", "model_missing", "no_models", "bad_status", "unreachable", "timeout"}

VARIABLES
    vectorStore,     \* Null or the build whose store it is
    chain,           \* Null or the build whose chain it is
    isInitializing,
    isInitialized,
    initPromise,     \* Null or the build whose promise it is
    builds,          \* the async closures started at line 77, by build id
    buildStarts,     \* number of builds started so far
    startup,         \* the module-level initialize().catch(...) call
    req,             \* the POST invocations
    llmCalls,        \* number of chain.call invocations
    emit,            \* one streaming loop (lines 519-526) with its content
    norm,            \* one call of cleanModelResponse with its texts
    client           \* one ChatContainer component

shared == <<vectorStore, chain, isInitializing, isInitialized, initPromise>>
routeVars == <<vectorStore, chain, isInitializing, isInitialized, initPromise,
               builds, buildStarts, startup, req, llmCalls>>
textVars == <<emit, norm>>
\* What the route's actions leave alone.
asideVars == <<textVars, client>>
vars == <<routeVars, textVars, client>>

\* available: the probe's answer (isOllamaAvailable), dropped when the build
\* throws; error: the message of the error the build's promise rejected with.
NoBuild == [pc |-> "none", available |-> FALSE, error |-> ""]
NoResp == [status |-> 0, key |-> "none", value |-> ""]
NoReq == [pc |-> "idle", message |-> Unread, stream |-> FALSE,
          via |-> "none", build |-> Null, chainToUse |-> Null,
          llm |-> "none", cleaned |-> FALSE, len |-> 0, sent |-> 0,
          waited |-> 0, timer |-> 0, loser |-> "none", resp |-> NoResp,
          cancelled |-> "no", delivered |-> 0, thrown |-> FALSE,
          shown |-> "none"]

\* text: cleanedText in UTF-16 code units; i: the loop index; wire: the bytes
\* enqueued so far.
NoEmit == [phase |-> "off", text |-> <<>>, i |-> 0, wire |-> <<>>]
\* text, originalMessage: the arguments; out: the result; again: the result
\* of cleaning out for the same question.
NoNorm == [phase |-> "off", text |-> <<>>, originalMessage |-> <<>>,
           out |-> <<>>, again |-> <<>>]

\* The client's response handlers started so far, each with its placeholder
\* message (content, hidden), and the component's state (ChatContainer.tsx,
\* lines 29-48 and 53).
HandlerIds == 1..MaxHandlers
NoHandler == [kind |-> "none", pc |-> "none", i |-> 0, content |-> <<>>,
              hidden |-> TRUE, aborted |-> FALSE,
              outcome |-> "none"]
StatusChecking == "Checking system status..."
StatusWaiting == "System is initializing. Please wait..."
StatusUnreachable ==
    "Error connecting to the system. Please make sure the server is running."
\* Lines 29-48 before the first effect runs.
NoClient ==
    [mounted |-> "no", check |-> "idle", checks |-> 0, isInitializing |-> FALSE,
     hasInitialized |-> FALSE, pollTimer |-> FALSE, welcomeTimer |-> FALSE,
     isLoading |-> FALSE, isStreaming |-> FALSE, isSystemReady |-> FALSE,
     isSystemError |-> FALSE, systemMessage |-> StatusChecking,
     streamAbortController |-> Null, started |-> 0,
     handlers |-> [h \in HandlerIds |-> NoHandler]]

Running == {"probe", "load", "split", "embed"}
Settled == {"resolved", "rejected"}
InFlight == {b \in BuildIds : builds[b].pc \in Running}

\* -------------------------------------------------------------- scheduling
\* A caller that goes on without waiting for the build it joined.
InitSettled_NoWait(r) == req[r].via # "none"
\* The promise initialize() gave the caller has settled.
InitSettled(r) ==
    \/ req[r].via = "cached"
    \/ req[r].via \in {"joined", "started"} /\ builds[req[r].build].pc \in Settled
\* The rejection reaches only the caller that started the build.
InitFailed_StarterOnly(r) ==
    req[r].via = "started" /\ builds[req[r].build].pc = "rejected"
\* The promise initialize() gave the caller has rejected.
InitFailed(r) ==
    req[r].via \in {"joined", "started"} /\ builds[req[r].build].pc = "rejected"

\* The reactions queued and not yet run: the startup call's handler (lines
\* 168-173) once its promise has rejected, and the continuation of every
\* await initialize() (lines 414, 432) whose promise has settled.
ReactionPending ==
    \/ startup = "awaiting" /\ builds[1].pc = "rejected"
    \/ \E r \in Requests : req[r].pc = "await_init" /\ InitSettled(r)
\* The microtask queue is empty: the event loop takes the next task.
TaskReady == ~ReactionPending

\* ------------------------------------------------------------- module load
\* Lines 12-18: the module-level declarations.
InitRoute ==
    /\ vectorStore = Null
    /\ chain = Null
    /\ isInitializing = FALSE
    /\ isInitialized = FALSE
    /\ initPromise = Null
    /\ builds = [b \in BuildIds |-> NoBuild]
    /\ buildStarts = 0
    /\ startup = "unloaded"
    /\ req = [r \in Requests |-> NoReq]
    /\ llmCalls = 0

Init == InitRoute /\ emit = NoEmit /\ norm = NoNorm /\ client = NoClient

\* checkOllamaConnection, lines 21-60: true only when the tags request
\* succeeds and lists MODEL_NAME; every failure is caught and gives false.
checkOllamaConnection(outcome) == outcome = "found"

\* initialize() without the check of lines 70-72.
InitPath_NoJoin ==
    IF isInitialized /\ vectorStore # Null /\ chain # Null THEN "cached"
    ELSE "started"
\* initialize() without the check of lines 65-67.
InitPath_NoCache ==
    IF isInitializing /\ initPromise # Null THEN "joined"
    ELSE "started"
\* initialize(), lines 63-76 and 164: which of its three paths a call takes.
InitPath ==
    IF isInitialized /\ vectorStore # Null /\ chain # Null THEN "cached"
    ELSE IF isInitializing /\ initPromise # Null THEN "joined"
    ELSE "started"

\* initialize(), lines 63-165, up to the first suspension of the closure
\* (await checkOllamaConnection()).  via/build describe what the caller holds.
Initialize(via, build) ==
    /\ via = InitPath
    /\ CASE via = "cached" ->
              /\ build = chain
              /\ UNCHANGED <<isInitializing, initPromise, builds, buildStarts>>
         [] via = "joined" ->
              /\ build = initPromise
              /\ UNCHANGED <<isInitializing, initPromise, builds, buildStarts>>
         [] OTHER ->
              /\ buildStarts < MaxBuilds
              /\ build = buildStarts + 1
              /\ isInitializing' = TRUE
              /\ initPromise' = build
              /\ builds' = [builds EXCEPT ![build] = [NoBuild EXCEPT !.pc = "probe"]]
              /\ buildStarts' = build
    /\ UNCHANGED <<vectorStore, chain, isInitialized>>

\* Line 168: initialize() called while the module is evaluated.
ModuleLoad ==
    /\ startup = "unloaded"
    /\ \E via \in {"cached", "joined", "started"}, b \in BuildIds :
          Initialize(via, b)
    /\ startup' = "awaiting"
    /\ UNCHANGED <<req, llmCalls>>
    /\ UNCHANGED asideVars

\* Lines 168-173: the rejection handler of the startup call.
StartupCatch ==
    /\ startup = "awaiting"
    /\ builds[1].pc = "rejected"
    /\ isInitializing' = FALSE
    /\ isInitialized' = FALSE
    /\ initPromise' = Null
    /\ startup' = "done"
    /\ UNCHANGED <<vectorStore, chain, builds, buildStarts, req, llmCalls>>
    /\ UNCHANGED asideVars

\* ---------------------------------------------------------------- the build
\* A probe whose negative answer aborts the build.
ProbeDone_Abort(b) ==
    /\ TaskReady
    /\ builds[b].pc = "probe"
    /\ \E o \in ProbeOutcomes :
          IF checkOllamaConnection(o)
          THEN /\ builds' = [builds EXCEPT ![b].pc = "load", ![b].available = TRUE]
               /\ UNCHANGED shared
          ELSE /\ builds' = [builds EXCEPT ![b].pc = "rejected",
                                          ![b].error = BackendError]
               /\ isInitializing' = FALSE
               /\ isInitialized' = FALSE
               /\ initPromise' = Null
               /\ UNCHANGED <<vectorStore, chain>>
    /\ UNCHANGED <<buildStarts, startup, req, llmCalls>>
    /\ UNCHANGED asideVars
\* Lines 80-83: the probe's answer is only logged.
ProbeDone(b) ==
    /\ TaskReady
    /\ builds[b].pc = "probe"
    /\ \E o \in ProbeOutcomes :
          builds' = [builds EXCEPT ![b].pc = "load",
                                   ![b].available = checkOllamaConnection(o)]
    /\ UNCHANGED <<shared, buildStarts, startup, req, llmCalls>>
    /\ UNCHANGED asideVars

\* A catch block that leaves the rejected promise in place.
Reject_KeepPromise(b, msg) ==
    /\ isInitializing' = FALSE
    /\ isInitialized' = FALSE
    /\ initPromise' = initPromise
    /\ builds' = [builds EXCEPT ![b].pc = "rejected", ![b].error = msg,
                             ![b].available = FALSE]
\* Lines 154-161: the closure's catch block.
Reject(b, msg) ==
    /\ isInitializing' = FALSE
    /\ isInitialized' = FALSE
    /\ initPromise' = Null
    /\ builds' = [builds EXCEPT ![b].pc = "rejected", ![b].error = msg,
                             ![b].available = FALSE]

\* Lines 86-102: the CV is loaded.
LoadDone(b) ==
    /\ TaskReady
    /\ builds[b].pc = "load"
    /\ builds' = [builds EXCEPT ![b].pc = "split"]
    /\ UNCHANGED <<shared, buildStarts, startup, req, llmCalls>>
    /\ UNCHANGED asideVars

\* Lines 103-106, 154-161: loading throws.
LoadFail(b) ==
    /\ TaskReady
    /\ builds[b].pc = "load"
    /\ Reject(b, LoadError)
    /\ UNCHANGED <<vectorStore, chain, buildStarts, startup, req, llmCalls>>
    /\ UNCHANGED asideVars

\* Lines 109-114: the documents are split.
SplitDone(b) ==
    /\ TaskReady
    /\ builds[b].pc = "split"
    /\ builds' = [builds EXCEPT ![b].pc = "embed"]
    /\ UNCHANGED <<shared, buildStarts, startup, req, llmCalls>>
    /\ UNCHANGED asideVars

\* Lines 113, 154-161: splitting throws.
SplitFail(b) ==
    /\ TaskReady
    /\ builds[b].pc = "split"
    /\ Reject(b, BackendError)
    /\ UNCHANGED <<vectorStore, chain, buildStarts, startup, req, llmCalls>>
    /\ UNCHANGED asideVars

\* Lines 125, 154-161: embedding throws.
EmbedFail(b) ==
    /\ TaskReady
    /\ builds[b].pc = "embed"
    /\ Reject(b, BackendError)
    /\ UNCHANGED <<vectorStore, chain, buildStarts, startup, req, llmCalls>>
    /\ UNCHANGED asideVars

\* Lines 125-153: the store is assigned, the chain created, Ready published.
EmbedDone(b) ==
    /\ TaskReady
    /\ builds[b].pc = "embed"
    /\ vectorStore' = b
    /\ chain' = b
    /\ isInitialized' = TRUE
    /\ builds' = [builds EXCEPT ![b].pc = "resolved"]
    /\ UNCHANGED <<isInitializing, initPromise, buildStarts, startup, req, llmCalls>>
    /\ UNCHANGED asideVars

\* A closure that publishes Ready as soon as the store exists and whose catch
\* block leaves the flag alone.
ChainFail_Ready(b) ==
    /\ TaskReady
    /\ builds[b].pc = "embed"
    /\ vectorStore' = b
    /\ isInitialized' = TRUE
    /\ isInitializing' = FALSE
    /\ initPromise' = Null
    /\ builds' = [builds EXCEPT ![b].pc = "rejected", ![b].error = BackendError,
                             ![b].available = FALSE]
    /\ UNCHANGED <<chain, buildStarts, startup, req, llmCalls>>
    /\ UNCHANGED asideVars
\* Lines 125-145, 154-161: the store is assigned, then fromLLM throws.
\* (fromLLM returns a new chain or throws, so line 147 never sees a falsy
\* chain.)
ChainFail(b) ==
    /\ TaskReady
    /\ builds[b].pc = "embed"
    /\ vectorStore' = b
    /\ Reject(b, BackendError)
    /\ UNCHANGED <<chain, buildStarts, startup, req, llmCalls>>
    /\ UNCHANGED asideVars

BuildStep(b) ==
    \/ ProbeDone(b)
    \/ LoadDone(b)
    \/ LoadFail(b)
    \/ SplitDone(b)
    \/ SplitFail(b)
    \/ EmbedDone(b)
    \/ EmbedFail(b)
    \/ ChainFail(b)

\* ------------------------------------------------------------- POST, routing
\* A check that lets the empty string through.
Falsy_OnlyUndefined(m) == m = Undefined
\* Line 396: !message.
Falsy(m) == m \in {Undefined, ""}
Pending(r) == req[r].pc \notin {"idle", "done"}
\* The requests the clock is followed for: non-streaming chat requests that
\* await initialize() (waited) or the race of line 559 (timer).
Timed(r) ==
    \/ req[r].pc = "race"
    \/ req[r].pc = "done" /\ req[r].loser = "timer"
    \/ req[r].pc = "await_init" /\ req[r].message = ChatMessage /\ ~req[r].stream
Respond(r, status, key, value) ==
    [req[r] EXCEPT !.pc = "done", !.build = Null, !.chainToUse = Null,
                   !.waited = 0,
                   !.resp = [status |-> status, key |-> key, value |-> value]]

\* Line 391: POST is invoked and suspends in req.json() (line 393).
Arrive(r) ==
    /\ TaskReady
    /\ startup # "unloaded"
    /\ req[r].pc = "idle"
    /\ r > 1 => req[r - 1].pc # "idle"
    /\ req' = [req EXCEPT ![r].pc = "json"]
    /\ UNCHANGED <<shared, builds, buildStarts, startup, llmCalls>>
    /\ UNCHANGED asideVars

\* Line 393: the destructured body.
Received(r, body) ==
    [req[r] EXCEPT !.message = body.message, !.stream = body.stream]

\* Lines 393, 576-583: the body is not JSON, the outer catch answers.
ParseFail(r) ==
    /\ TaskReady
    /\ req[r].pc = "json"
    /\ req' = [req EXCEPT ![r] = Respond(r, 500, "error",
                  "Failed to process your message: Unexpected end of JSON input")]
    /\ UNCHANGED <<shared, builds, buildStarts, startup, llmCalls>>
    /\ UNCHANGED asideVars

\* Lines 396-401: a missing or empty message.
Reject400(r, body) ==
    /\ TaskReady
    /\ req[r].pc = "json"
    /\ Falsy(body.message)
    /\ req' = [req EXCEPT ![r] = [Respond(r, 400, "error", "Message is required")
                                    EXCEPT !.message = body.message]]
    /\ UNCHANGED <<shared, builds, buildStarts, startup, llmCalls>>
    /\ UNCHANGED asideVars

\* A status answer that takes a running build for a finished one.
StatusNow_Optimistic(r, body) ==
    /\ TaskReady
    /\ req[r].pc = "json"
    /\ body.message = "system_check"
    /\ \/ isInitialized /\ chain # Null
       \/ isInitializing /\ initPromise # Null
    /\ req' = [req EXCEPT ![r] =
          [Respond(r, 200, "status:ready", MODEL_NAME)
             EXCEPT !.message = body.message]]
    /\ UNCHANGED <<shared, builds, buildStarts, startup, llmCalls>>
    /\ UNCHANGED asideVars
\* Lines 404-410: system_check answered from the flags, without waiting.
StatusNow(r, body) ==
    /\ TaskReady
    /\ req[r].pc = "json"
    /\ body.message = "system_check"
    /\ \/ /\ isInitialized /\ chain # Null
          /\ req' = [req EXCEPT ![r] =
                [Respond(r, 200, "status:ready", MODEL_NAME)
                   EXCEPT !.message = body.message]]
       \/ /\ ~(isInitialized /\ chain # Null)
          /\ isInitializing /\ initPromise # Null
          /\ req' = [req EXCEPT ![r] =
                [Respond(r, 200, "status:initializing", "")
                   EXCEPT !.message = body.message]]
    /\ UNCHANGED <<shared, builds, buildStarts, startup, llmCalls>>
    /\ UNCHANGED asideVars

\* Lines 411-414 (system_check) and 427-432 (chat): initialize() is called
\* and awaited.
CallInitialize(r, body) ==
    /\ TaskReady
    /\ req[r].pc = "json"
    /\ ~Falsy(body.message)
    /\ body.message = "system_check" =>
          /\ ~(isInitialized /\ chain # Null)
          /\ ~(isInitializing /\ initPromise # Null)
    /\ \E via \in {"cached", "joined", "started"}, b \in BuildIds :
          /\ Initialize(via, b)
          /\ req' = [req EXCEPT ![r] = [Received(r, body) EXCEPT
                         !.pc = "await_init", !.via = via, !.build = b]]
    /\ UNCHANGED <<startup, llmCalls>>
    /\ UNCHANGED asideVars

\* A system_check that answers ready once its wait is over, whatever the
\* outcome.
StatusAfterInit_Ready(r) ==
    /\ req[r].pc = "await_init"
    /\ req[r].message = "system_check"
    /\ InitSettled(r)
    /\ req' = [req EXCEPT ![r] = Respond(r, 200, "status:ready", MODEL_NAME)]
    /\ UNCHANGED <<shared, builds, buildStarts, startup, llmCalls>>
    /\ UNCHANGED asideVars
\* Lines 414-422: system_check after its own initialize() call.
StatusAfterInit(r) ==
    /\ req[r].pc = "await_init"
    /\ req[r].message = "system_check"
    /\ InitSettled(r)
    /\ req' = [req EXCEPT ![r] =
          IF InitFailed(r)
          THEN Respond(r, 200, "status:error", builds[req[r].build].error)
          ELSE Respond(r, 200, "status:ready", MODEL_NAME)]
    /\ UNCHANGED <<shared, builds, buildStarts, startup, llmCalls>>
    /\ UNCHANGED asideVars

InitErrorText ==
    "Failed to initialize RAG system. Please make sure Ollama is running with at least one model."

\* A catch block that logs the error and goes on to the chain call.
ChatInitFailed_CallsChain(r) ==
    /\ req[r].pc = "await_init"
    /\ req[r].message # "system_check"
    /\ InitSettled(r)
    /\ InitFailed(r)
    /\ llmCalls' = llmCalls + 1
    /\ req' = [req EXCEPT ![r].llm = "pending", ![r].chainToUse = chain,
                          ![r].pc = IF req[r].stream THEN "s_call" ELSE "race",
                          ![r].waited = 0, ![r].timer = 0,
                          ![r].resp = IF req[r].stream
                                      THEN [status |-> 200, key |-> "stream",
                                            value |-> ""]
                                      ELSE NoResp]
    /\ UNCHANGED <<shared, builds, buildStarts, startup>>
    /\ UNCHANGED asideVars
\* Lines 439-445: initialize() rejected, the chat request answers 500.
ChatInitFailed(r) ==
    /\ req[r].pc = "await_init"
    /\ req[r].message # "system_check"
    /\ InitSettled(r)
    /\ InitFailed(r)
    /\ req' = [req EXCEPT ![r] = Respond(r, 500, "error",
                  InitErrorText)]
    /\ UNCHANGED <<shared, builds, buildStarts, startup, llmCalls>>
    /\ UNCHANGED asideVars

\* A handler that clears the flag instead.
MarkInitialized_Clear == isInitialized' = FALSE
\* Line 435: the handler's own write of the flag.
MarkInitialized == isInitialized' = TRUE

\* Lines 432-435, 499-512 (streaming: the stream's start() runs and calls the
\* chain, the Response is returned) or 546-559 (the timer is armed, the chain
\* called, the race awaited).
ChatInitOk(r) ==
    /\ req[r].pc = "await_init"
    /\ req[r].message # "system_check"
    /\ InitSettled(r)
    /\ ~InitFailed(r)
    /\ MarkInitialized
    /\ llmCalls' = llmCalls + 1
    /\ req' = [req EXCEPT
          ![r].chainToUse = req[r].build,
          ![r].llm = "pending",
          ![r].pc = IF req[r].stream THEN "s_call" ELSE "race",
          ![r].waited = 0,
          ![r].timer = 0,
          ![r].resp = IF req[r].stream
                      THEN [status |-> 200, key |-> "stream", value |-> ""]
                      ELSE NoResp]
    /\ UNCHANGED <<vectorStore, chain, isInitializing, initPromise, builds,
                   buildStarts, startup>>
    /\ UNCHANGED asideVars

\* ------------------------------------------------------- POST, non-streaming
\* Lines 559-567: the chain answered first; the text is cleaned and returned.
AnswerJson(r) ==
    /\ TaskReady
    /\ req[r].pc = "race"
    /\ req[r].llm = "pending"
    /\ req' = [req EXCEPT ![r] = [Respond(r, 200, "response", "cleanedText")
                     EXCEPT !.llm = "returned", !.cleaned = TRUE,
                            !.loser = "timer"]]
    /\ UNCHANGED <<shared, builds, buildStarts, startup, llmCalls>>
    /\ UNCHANGED asideVars

\* Lines 559, 568-574: the chain call rejected first.
GenerationError(r) ==
    /\ TaskReady
    /\ req[r].pc = "race"
    /\ req[r].llm = "pending"
    /\ \E e \in LlmErrors :
          req' = [req EXCEPT ![r] = [Respond(r, 500, "error",
                     "Error processing your request: " \o e)
                        EXCEPT !.llm = "failed", !.loser = "timer"]]
    /\ UNCHANGED <<shared, builds, buildStarts, startup, llmCalls>>
    /\ UNCHANGED asideVars

\* Lines 548-550, 559, 568-574: the timer rejected first.
Expire(r) ==
    /\ TaskReady
    /\ req[r].pc = "race"
    /\ req' = [req EXCEPT ![r] = [Respond(r, 500, "error",
                  "Error processing your request: " \o TimeoutMessage)
                     EXCEPT !.loser = "llm"]]
    /\ UNCHANGED <<shared, builds, buildStarts, startup, llmCalls>>
    /\ UNCHANGED asideVars

\* Where the clock is not followed, the timer may fire at any moment.
TimerExpires(r) == Expire(r)

\* A timer that is due as soon as it is armed.
TimerDue_Early(r) == req[r].pc = "race"
\* Where the clock is followed, the timer fires when it is due.
TimerDue(r) == req[r].pc = "race" /\ req[r].timer >= TimeoutTicks
TimerFires(r) == TimerDue(r) /\ Expire(r)

\* Line 559: Promise.race has settled and the handler has answered; the branch
\* that lost is still outstanding (req[r].loser) and settles later.  Nothing
\* awaits it any more.
\* A losing chain call whose result is sent as a second response.
LateResult_Responds(r) ==
    /\ TaskReady
    /\ req[r].pc = "done"
    /\ req[r].loser = "llm"
    /\ req' = [req EXCEPT ![r].loser = "none",
                           ![r].resp = [status |-> 200, key |-> "response",
                                        value |-> "cleanedText"]]
    /\ UNCHANGED <<shared, builds, buildStarts, startup, llmCalls>>
    /\ UNCHANGED asideVars
\* Lines 553-559: the chain call settles (answer or error) after the timer
\* has won the race.
LateResult(r) ==
    /\ TaskReady
    /\ req[r].pc = "done"
    /\ req[r].loser = "llm"
    /\ req' = [req EXCEPT ![r].loser = "none"]
    /\ UNCHANGED <<shared, builds, buildStarts, startup, llmCalls>>
    /\ UNCHANGED asideVars
\* Lines 548-550, 559: the timer's callback rejects timeoutPromise after the
\* chain call has won the race.
LateTimer(r) ==
    /\ TaskReady
    /\ req[r].pc = "done"
    /\ req[r].loser = "timer"
    /\ req' = [req EXCEPT ![r].loser = "none"]
    /\ UNCHANGED <<shared, builds, buildStarts, startup, llmCalls>>
    /\ UNCHANGED asideVars
LateTimerExpires(r) == LateTimer(r)
LateTimerDue(r) ==
    req[r].pc = "done" /\ req[r].loser = "timer" /\ req[r].timer >= TimeoutTicks
LateTimerFires(r) == LateTimerDue(r) /\ LateTimer(r)

\* ----------------------------------------------------------- POST, streaming
\* Lines 510-516: the chain answered; the text is cleaned, the loop starts.
\* len is the length of cleanModelResponse(response.text, message).
StreamAnswer(r) ==
    /\ TaskReady
    /\ req[r].pc = "s_call"
    /\ req[r].llm = "pending"
    /\ \E n \in 0..MaxUnits :
          req' = [req EXCEPT ![r].llm = "returned", ![r].cleaned = TRUE,
                             ![r].len = n, ![r].pc = "s_emit"]
    /\ UNCHANGED <<shared, builds, buildStarts, startup, llmCalls>>
    /\ UNCHANGED asideVars

\* Lines 519-524: one unit is enqueued, then the 20 ms pause.
EmitUnit(r) ==
    /\ TaskReady
    /\ req[r].pc = "s_emit"
    /\ req[r].sent < req[r].len
    /\ req[r].cancelled # "stream"
    /\ req' = [req EXCEPT ![r].sent = req[r].sent + 1]
    /\ UNCHANGED <<shared, builds, buildStarts, startup, llmCalls>>
    /\ UNCHANGED asideVars

\* Line 526: the loop is over, the stream is closed.
CloseStream(r) ==
    /\ TaskReady
    /\ req[r].pc = "s_emit"
    /\ req[r].sent = req[r].len
    /\ req[r].cancelled # "stream"
    /\ req' = [req EXCEPT ![r].pc = "done", ![r].build = Null,
                           ![r].chainToUse = Null]
    /\ UNCHANGED <<shared, builds, buildStarts, startup, llmCalls>>
    /\ UNCHANGED asideVars

\* Lines 527-532: the chain call rejected; the message is enqueued as text
\* and the stream closed.
StreamError(r) ==
    /\ TaskReady
    /\ req[r].pc = "s_call"
    /\ req[r].llm = "pending"
    /\ req[r].cancelled # "stream"
    /\ \E e \in LlmErrors :
          req' = [req EXCEPT ![r].llm = "failed", ![r].pc = "done",
                             ![r].build = Null, ![r].chainToUse = Null,
                             ![r].resp.value = "Error: " \o e]
    /\ UNCHANGED <<shared, builds, buildStarts, startup, llmCalls>>
    /\ UNCHANGED asideVars

\* ChatContainer.tsx lines 111-116 and 255-262: the caller aborts the fetch
\* while the response is streamed.  reader.read() (or the fetch itself)
\* rejects with an AbortError, the units read so far stay the delivered ones,
\* and the catch block calls updateStreamedMessage with the apology text in
\* place of the content shown.  On the server the ReadableStream of lines
\* 504-535 has no cancel() and the chain call takes no signal: either the
\* platform cancels the stream when the connection goes ("stream"), or it
\* does not and start() goes on unnoticed ("unseen").
Abort_All(r) ==
    /\ TaskReady
    /\ req[r].stream
    /\ req[r].pc \in {"s_call", "s_emit"}
    /\ req[r].cancelled = "no"
    /\ \E outcome \in {"stream", "unseen"} :
          req' = [q \in Requests |->
                    IF req[q].stream /\ req[q].pc \in {"s_call", "s_emit"}
                    THEN [req[q] EXCEPT !.cancelled = outcome,
                                        !.delivered = req[q].sent,
                                        !.shown = "apology"]
                    ELSE req[q]]
    /\ UNCHANGED <<shared, builds, buildStarts, startup, llmCalls>>
    /\ UNCHANGED asideVars
Abort(r) ==
    /\ TaskReady
    /\ req[r].stream
    /\ req[r].pc \in {"s_call", "s_emit"}
    /\ req[r].cancelled = "no"
    /\ \E outcome \in {"stream", "unseen"} :
          req' = [req EXCEPT ![r].cancelled = outcome,
                             ![r].delivered = req[r].sent,
                             ![r].shown = "apology"]
    /\ UNCHANGED <<shared, builds, buildStarts, startup, llmCalls>>
    /\ UNCHANGED asideVars

\* Lines 521 or 526, then 528-531, on a cancelled stream: controller.enqueue
\* (controller.close when nothing is left) throws a TypeError, the catch
\* block logs it and calls controller.enqueue, which throws again out of
\* start().
EnqueueThrows(r) ==
    /\ TaskReady
    /\ req[r].pc = "s_emit"
    /\ req[r].cancelled = "stream"
    /\ req' = [req EXCEPT ![r].pc = "done", ![r].build = Null,
                           ![r].chainToUse = Null, ![r].thrown = TRUE]
    /\ UNCHANGED <<shared, builds, buildStarts, startup, llmCalls>>
    /\ UNCHANGED asideVars

\* Lines 527-531 on a cancelled stream: the chain call rejected, and the
\* controller.enqueue of the catch block throws out of start().
StreamErrorThrows(r) ==
    /\ TaskReady
    /\ req[r].pc = "s_call"
    /\ req[r].llm = "pending"
    /\ req[r].cancelled = "stream"
    /\ \E e \in LlmErrors :
          req' = [req EXCEPT ![r].llm = "failed", ![r].pc = "done",
                             ![r].build = Null, ![r].chainToUse = Null,
                             ![r].thrown = TRUE]
    /\ UNCHANGED <<shared, builds, buildStarts, startup, llmCalls>>
    /\ UNCHANGED asideVars

\* -------------------------------------------------------------------- time
\* One tick of the clock.  A due timer fires before the clock moves on.
Min(a, b) == IF a < b THEN a ELSE b
Tick ==
    /\ TaskReady
    /\ \E r \in Requests : Timed(r)
    /\ \A r \in Requests : ~TimerDue(r) /\ ~LateTimerDue(r)
    /\ req' = [r \in Requests |->
          IF req[r].pc = "race" \/ req[r].loser = "timer"
          THEN [req[r] EXCEPT !.timer = @ + 1]
          ELSE IF Timed(r) THEN [req[r] EXCEPT !.waited = Min(@ + 1, MaxWait)]
          ELSE req[r]]
    /\ UNCHANGED <<shared, builds, buildStarts, startup, llmCalls>>
    /\ UNCHANGED asideVars

\* --------------------------------------------------------------------- spec
RequestStep(r) ==
    \/ Arrive(r)
    \/ ParseFail(r)
    \/ \E body \in Bodies : Reject400(r, body)
    \/ \E body \in Bodies : StatusNow(r, body)
    \/ \E body \in Bodies : CallInitialize(r, body)
    \/ StatusAfterInit(r)
    \/ ChatInitFailed(r)
    \/ ChatInitOk(r)
    \/ AnswerJson(r)
    \/ GenerationError(r)
    \/ LateResult(r)
    \/ StreamAnswer(r)
    \/ EmitUnit(r)
    \/ CloseStream(r)
    \/ StreamError(r)

Core ==
    \/ ModuleLoad
    \/ StartupCatch
    \/ \E b \in BuildIds : BuildStep(b)
    \/ \E r \in Requests : RequestStep(r)

\* The program with the clock left out.
Next ==
    \/ Core
    \/ \E r \in Requests : TimerExpires(r)
    \/ \E r \in Requests : LateTimerExpires(r)

\* Every caller reads its response to the end.
Spec == Init /\ [][Next]_vars

\* Callers may also abort a response that is being streamed.
NextCancel ==
    \/ Next
    \/ \E r \in Requests : Abort(r)
    \/ \E r \in Requests : EnqueueThrows(r)
    \/ \E r \in Requests : StreamErrorThrows(r)

SpecCancel == Init /\ [][NextCancel]_vars

\* The program with the clock followed.
NextTimed ==
    \/ Core
    \/ \E r \in Requests : TimerFires(r)
    \/ \E r \in Requests : LateTimerFires(r)
    \/ Tick

SpecTimed == Init /\ [][NextTimed]_vars

\* The program with the clock followed and with the progress its scheduling
\* guarantees: queued reactions run, time passes and due timers fire, the
\* probe ends (its request is aborted after 5 s, line 25), the local file is
\* read and split, the 20 ms pauses of the streaming loop end.  Nothing
\* obliges the embedding backend or the language model to answer: the calls
\* of lines 125-128, 512 and 553 are awaited with no timeout of their own.
Progress ==
    /\ WF_vars(StartupCatch)
    /\ WF_vars(Tick)
    /\ \A b \in BuildIds :
          /\ WF_vars(ProbeDone(b))
          /\ WF_vars(LoadDone(b) \/ LoadFail(b))
          /\ WF_vars(SplitDone(b) \/ SplitFail(b))
    /\ \A r \in Requests :
          /\ WF_vars(StatusAfterInit(r))
          /\ WF_vars(ChatInitFailed(r))
          /\ WF_vars(ChatInitOk(r))
          /\ WF_vars(TimerFires(r))
          /\ WF_vars(LateTimerFires(r))
          /\ WF_vars(EmitUnit(r))
          /\ WF_vars(CloseStream(r))

SpecLive == Init /\ [][NextTimed]_vars /\ Progress

\* ------------------------------------------- the streaming loop, by content
\* A JavaScript string is a sequence of UTF-16 code units (numbers below
\* 65536); what the server enqueues and the client reads are bytes.
\* The characters tried: "a" (U+0061), "e" with acute accent (U+00E9) and the
\* grinning face (U+1F600, which takes two code units).
AnswerChars == {97, 233, 128512}
RECURSIVE SeqsUpTo(_, _)
SeqsUpTo(S, n) ==
    IF n = 0 THEN {<<>>}
    ELSE SeqsUpTo(S, n - 1) \cup
         {Append(t, c) : t \in {x \in SeqsUpTo(S, n - 1) : Len(x) = n - 1}, c \in S}
\* The code units of one character.
CodeUnits(cp) ==
    IF cp < 65536 THEN <<cp>>
    ELSE <<55296 + ((cp - 65536) \div 1024), 56320 + ((cp - 65536) % 1024)>>
RECURSIVE ToJsString(_)
ToJsString(cps) ==
    IF cps = <<>> THEN <<>> ELSE CodeUnits(Head(cps)) \o ToJsString(Tail(cps))
\* The answers tried, as JavaScript strings.
Answers == {ToJsString(cps) : cps \in SeqsUpTo(AnswerChars, MaxChars)}

IsHighSurrogate(u) == u >= 55296 /\ u <= 56319
IsLowSurrogate(u) == u >= 56320 /\ u <= 57343
\* What TextEncoder.encode (line 521) and the serialisation of a JSON body
\* first make of a string: its scalar values.  A surrogate pair is one
\* character; a surrogate on its own becomes U+FFFD.
RECURSIVE ScalarValues(_)
ScalarValues(u) ==
    IF u = <<>> THEN <<>>
    ELSE IF Len(u) >= 2 /\ IsHighSurrogate(u[1]) /\ IsLowSurrogate(u[2])
         THEN <<65536 + (u[1] - 55296) * 1024 + (u[2] - 56320)>>
                 \o ScalarValues(SubSeq(u, 3, Len(u)))
    ELSE IF IsHighSurrogate(u[1]) \/ IsLowSurrogate(u[1])
         THEN <<65533>> \o ScalarValues(Tail(u))
    ELSE <<u[1]>> \o ScalarValues(Tail(u))
\* UTF-8 of one scalar value.
Utf8(cp) ==
    IF cp < 128 THEN <<cp>>
    ELSE IF cp < 2048 THEN <<192 + (cp \div 64), 128 + (cp % 64)>>
    ELSE IF cp < 65536
         THEN <<224 + (cp \div 4096), 128 + ((cp \div 64) % 64), 128 + (cp % 64)>>
    ELSE <<240 + (cp \div 262144), 128 + ((cp \div 4096) % 64),
           128 + ((cp \div 64) % 64), 128 + (cp % 64)>>
RECURSIVE Utf8All(_)
Utf8All(cps) == IF cps = <<>> THEN <<>> ELSE Utf8(Head(cps)) \o Utf8All(Tail(cps))
\* Line 521: encoder.encode(chunk).
encode(str) == Utf8All(ScalarValues(str))
\* ChatContainer.tsx line 247: decoder.decode(value, { stream: true }) over
\* the chunks read, which is the decoding of the bytes received so far
\* (an incomplete sequence is kept for the next chunk).  A byte that starts
\* no well-formed sequence decodes to U+FFFD.
RECURSIVE decode(_)
decode(b) ==
    IF b = <<>> THEN <<>>
    ELSE IF b[1] < 128 THEN <<b[1]>> \o decode(Tail(b))
    ELSE IF b[1] >= 192 /\ b[1] < 224 /\ Len(b) >= 2
         THEN <<(b[1] - 192) * 64 + (b[2] - 128)>> \o decode(SubSeq(b, 3, Len(b)))
    ELSE IF b[1] >= 224 /\ b[1] < 240 /\ Len(b) >= 3
         THEN <<(b[1] - 224) * 4096 + (b[2] - 128) * 64 + (b[3] - 128)>>
                 \o decode(SubSeq(b, 4, Len(b)))
    ELSE IF b[1] >= 240 /\ b[1] < 248 /\ Len(b) >= 4
         THEN CodeUnits((b[1] - 240) * 262144 + (b[2] - 128) * 4096
                          + (b[3] - 128) * 64 + (b[4] - 128))
                 \o decode(SubSeq(b, 5, Len(b)))
    ELSE <<65533>> \o decode(Tail(b))
\* Lines 564-567 and ChatContainer.tsx line 293: the non-streaming answer as
\* the client gets it, NextResponse.json({ response }) read by
\* response.json().  None of the characters tried is escaped in JSON.
JsonAnswer(str) == decode(encode(str))

\* The loop of lines 519-526 over one cleaned answer.
InitEmit ==
    /\ InitRoute
    /\ norm = NoNorm
    /\ client = NoClient
    /\ \E str \in Answers : emit = [NoEmit EXCEPT !.phase = "loop", !.text = str]
\* Lines 519-524: cleanedText.charAt(i) is encoded and enqueued.
charAt(str, i) == <<str[i + 1]>>
EnqueueChunk ==
    /\ emit.phase = "loop"
    /\ emit.i < Len(emit.text)
    /\ emit' = [emit EXCEPT !.wire = @ \o encode(charAt(emit.text, emit.i)),
                            !.i = @ + 1]
    /\ UNCHANGED <<routeVars, norm, client>>
\* Line 526: controller.close().
ControllerClose ==
    /\ emit.phase = "loop"
    /\ emit.i = Len(emit.text)
    /\ emit' = [emit EXCEPT !.phase = "closed"]
    /\ UNCHANGED <<routeVars, norm, client>>
NextEmit == EnqueueChunk \/ ControllerClose
SpecEmit == InitEmit /\ [][NextEmit]_vars

\* -------------------------------------------------- text and regular expressions
\* A text is a sequence of characters, each a one-character string; Bullet
\* stands for U+2022.
Chars(w) == [i \in 1..Len(w) |-> SubSeq(w, i, i)]
\* F(v), with v evaluated once.
With(v, F(_)) == CHOOSE r \in {F(x) : x \in {v}} : TRUE
Bullet == "U+2022"
LowerCase == Chars("abcdefghijklmnopqrstuvwxyz")
UpperCase == Chars("ABCDEFGHIJKLMNOPQRSTUVWXYZ")
Range(f) == {f[i] : i \in DOMAIN f}
Lowers == Range(LowerCase)
Uppers == Range(UpperCase)
Letters == Lowers \cup Uppers
Digits == Range(Chars("0123456789"))
\* \w and \s, of the characters tried.
WordChars == Letters \cup Digits \cup {"_"}
Spaces == {" ", "\n", "\t"}
toLowerCase(c) ==
    IF c \in Uppers THEN LowerCase[CHOOSE i \in DOMAIN UpperCase : UpperCase[i] = c]
    ELSE c
toUpperCase(c) ==
    IF c \in Lowers THEN UpperCase[CHOOSE i \in DOMAIN LowerCase : LowerCase[i] = c]
    ELSE c
ToLower(str) == [i \in DOMAIN str |-> toLowerCase(str[i])]

\* A regular expression is a sequence of alternatives, tried in their order;
\* an alternative is a sequence of items.  An item is a character class taken
\* once, optionally (min = 0) or repeatedly (many), greedily or lazily, or an
\* assertion: "wb" for \b, "bol" for ^, "eol" for $, "ahead" for (?=...),
\* "behind" for (?<=c), or a literal: "lit" with the characters allowed at
\* each of its places.
One(S) == [k |-> "set", in |-> S, neg |-> FALSE, min |-> 1, many |-> FALSE,
           lazy |-> FALSE]
NotOf(S) == [One(S) EXCEPT !.neg = TRUE]
AnyChar == NotOf({})
Opt(item) == [item EXCEPT !.min = 0]
Plus(item) == [item EXCEPT !.many = TRUE]
Star(item) == [item EXCEPT !.min = 0, !.many = TRUE]
Lazy(item) == [item EXCEPT !.lazy = TRUE]
WB == [k |-> "wb"]
BOL == [k |-> "bol"]
EOL == [k |-> "eol"]
Ahead(re) == [k |-> "ahead", re |-> re]
Behind(S) == [k |-> "behind", in |-> S]
\* A literal, as written and under the i flag.
Lit(w) == <<[k |-> "lit", cs |-> [i \in 1..Len(w) |-> {SubSeq(w, i, i)}]]>>
LitI(w) ==
    <<[k |-> "lit",
       cs |-> [i \in 1..Len(w) |->
                 {toLowerCase(SubSeq(w, i, i)), toUpperCase(SubSeq(w, i, i))}]]>>
\* \s*, \s+
Ws0 == <<Star(One(Spaces))>>
Ws1 == <<Plus(One(Spaces))>>

InClass(item, c) == (c \in item.in) # item.neg
Least(S) == With(S, LAMBDA T : CHOOSE x \in T : \A y \in T : x <= y)
Greatest(S) == With(S, LAMBDA T : CHOOSE x \in T : \A y \in T : x >= y)
\* The number of characters of the class that follow offset p.
RunLen(item, s, p) ==
    With({q \in p..(Len(s) - 1) : ~InClass(item, s[q + 1])},
         LAMBDA stops : IF stops = {} THEN Len(s) - p ELSE Least(stops) - p)
IsWordAt(s, i) == i >= 1 /\ i <= Len(s) /\ s[i] \in WordChars
\* \b at offset p: between s[p] and s[p + 1].
WordBoundary(s, p) == IsWordAt(s, p) # IsWordAt(s, p + 1)

\* The end of the match of the items re[k..] at offset p of s, the one a
\* backtracking matcher finds first; -1 when there is none.
RECURSIVE MatchFrom(_, _, _, _)
\* A class taken between min and avail times: the ends of the match of the
\* rest for each count, of which a lazy item takes the one of the least
\* count that fits and a greedy item that of the greatest.
Counted(re, k, s, p, avail) ==
    With({<<c, MatchFrom(re, k + 1, s, p + c)>> : c \in re[k].min..avail},
         LAMBDA ends :
            With({x \in ends : x[2] # -1},
                 LAMBDA fit :
                    IF fit = {} THEN -1
                    ELSE With(IF re[k].lazy THEN Least({x[1] : x \in fit})
                              ELSE Greatest({x[1] : x \in fit}),
                              LAMBDA c : (CHOOSE x \in fit : x[1] = c)[2])))
MatchFrom(re, k, s, p) ==
    IF k > Len(re) THEN p
    ELSE CASE re[k].k = "wb" ->
                IF WordBoundary(s, p) THEN MatchFrom(re, k + 1, s, p) ELSE -1
           [] re[k].k = "bol" ->
                IF p = 0 THEN MatchFrom(re, k + 1, s, p) ELSE -1
           [] re[k].k = "eol" ->
                IF p = Len(s) THEN MatchFrom(re, k + 1, s, p) ELSE -1
           [] re[k].k = "ahead" ->
                IF MatchFrom(re[k].re, 1, s, p) # -1
                THEN MatchFrom(re, k + 1, s, p) ELSE -1
           [] re[k].k = "behind" ->
                IF p >= 1 /\ s[p] \in re[k].in
                THEN MatchFrom(re, k + 1, s, p) ELSE -1
           [] re[k].k = "lit" ->
                IF /\ p + Len(re[k].cs) <= Len(s)
                   /\ \A i \in DOMAIN re[k].cs : s[p + i] \in re[k].cs[i]
                THEN MatchFrom(re, k + 1, s, p + Len(re[k].cs)) ELSE -1
           [] re[k].k = "set" /\ re[k].min = 1 /\ ~re[k].many ->
                IF p < Len(s) /\ InClass(re[k], s[p + 1])
                THEN MatchFrom(re, k + 1, s, p + 1) ELSE -1
           [] OTHER ->
                With(IF re[k].many THEN RunLen(re[k], s, p)
                     ELSE IF p < Len(s) /\ InClass(re[k], s[p + 1]) THEN 1
                     ELSE 0,
                     LAMBDA avail : IF avail < re[k].min THEN -1
                                    ELSE Counted(re, k, s, p, avail))
\* The alternatives in their order.
MatchAt(alts, s, p) ==
    With([a \in DOMAIN alts |-> MatchFrom(alts[a], 1, s, p)],
         LAMBDA ends :
            IF \A a \in DOMAIN ends : ends[a] = -1 THEN -1
            ELSE ends[Least({a \in DOMAIN ends : ends[a] # -1})])
\* The end of the match at every offset.
MatchEnds(alts, s) ==
    With(<<alts, s>>,
         LAMBDA x : [p \in 0..Len(x[2]) |-> MatchAt(x[1], x[2], p)])
\* The first match at or after offset p, as <<start, end>>; <<>> if none.
FirstFrom(ends, p) ==
    With({q \in DOMAIN ends : q >= p /\ ends[q] # -1},
         LAMBDA hits : IF hits = {} THEN <<>>
                       ELSE With(Least(hits), LAMBDA q : <<q, ends[q]>>))
Search(alts, s, p) ==
    With(MatchEnds(alts, s), LAMBDA ends : FirstFrom(ends, p))
\* regex.test(s)
Test(alts, s) == Search(alts, s, 0) # <<>>
\* The matches of a g regex, left to right, not overlapping.
RECURSIVE MatchesFrom(_, _)
MatchesFrom(ends, p) ==
    With(FirstFrom(ends, p),
         LAMBDA m : IF m = <<>> THEN <<>>
                    ELSE With(IF m[2] > m[1] THEN m[2] ELSE m[2] + 1,
                              LAMBDA q : <<m>> \o MatchesFrom(ends, q)))
Matches(alts, s) ==
    With(MatchEnds(alts, s), LAMBDA ends : MatchesFrom(ends, 0))
Slice(s, a, b) == SubSeq(s, a + 1, b)
\* s with the matches ms replaced by the texts reps.
RECURSIVE Splice(_, _, _, _, _)
Splice(s, ms, reps, i, from) ==
    IF i > Len(ms) THEN Slice(s, from, Len(s))
    ELSE Slice(s, from, ms[i][1]) \o reps[i]
            \o Splice(s, ms, reps, i + 1, ms[i][2])
\* s.replace(regex, f) with the g flag, f mapping the matched text to its
\* replacement, and without the g flag.
ReplaceAll(alts, str, F(_)) ==
    With(str, LAMBDA s :
    With(Matches(alts, s), LAMBDA ms :
    With([i \in 1..Len(ms) |-> F(Slice(s, ms[i][1], ms[i][2]))], LAMBDA reps :
        Splice(s, ms, reps, 1, 0))))
ReplaceFirst(alts, str, F(_)) ==
    With(str, LAMBDA s :
    With(Search(alts, s, 0), LAMBDA m :
        IF m = <<>> THEN s
        ELSE Slice(s, 0, m[1]) \o F(Slice(s, m[1], m[2]))
                \o Slice(s, m[2], Len(s))))
\* s.match(regex) with the g flag: the matched texts.
MatchTexts(alts, str) ==
    With(str, LAMBDA s :
    With(Matches(alts, s), LAMBDA ms :
        [i \in 1..Len(ms) |-> Slice(s, ms[i][1], ms[i][2])]))
\* s.includes(w), for a text w
IncludesText(str, text) ==
    With(<<str, text>>, LAMBDA x :
        \E p \in 0..(Len(x[1]) - Len(x[2])) :
            Slice(x[1], p, p + Len(x[2])) = x[2])
Includes(s, w) == IncludesText(s, Chars(w))
\* s.trim()
Trim(str) ==
    With(str, LAMBDA s :
    With({i \in DOMAIN s : s[i] \notin Spaces}, LAMBDA keep :
        IF keep = {} THEN <<>> ELSE SubSeq(s, Least(keep), Greatest(keep))))
\* parts.join(sep)
RECURSIVE JoinFrom(_, _, _)
JoinFrom(parts, sep, i) ==
    IF i > Len(parts) THEN <<>>
    ELSE IF i = Len(parts) THEN parts[i]
    ELSE parts[i] \o sep \o JoinFrom(parts, sep, i + 1)
Join(parts, sep) == With(parts, LAMBDA ps : JoinFrom(ps, sep, 1))

\* ------------------------------------------------------- cleanModelResponse
\* A replacement: the regex, its g flag, and what a match is replaced by: the
\* text `to`, or what the replacement function named by `by` makes of it.
Rule(re, to) == [re |-> re, g |-> TRUE, by |-> "text", to |-> Chars(to)]
RuleBy(re, by) == [re |-> re, g |-> TRUE, by |-> by, to |-> <<>>]
Once(rule) == [rule EXCEPT !.g = FALSE]
NotNewline == NotOf({"\n"})
Word(w) == <<<<WB>> \o LitI(w) \o <<WB>>>>

\* Lines 178-181.
ThinkBlock == <<LitI("<think>") \o <<Lazy(Star(AnyChar))>> \o LitI("</think>")>>
ThinkTag == <<LitI("<") \o <<Opt(One({"/"}))>> \o LitI("think>")>>
\* Lines 189-190.
HelpfulLead(be) ==
    <<BOL>> \o Ws0 \o LitI("I'll") \o Ws1 \o be \o LitI("helpful")
        \o <<One({":", "."})>> \o Ws1
LetMeBeHelpful ==
    <<Ws0 \o LitI("Let") \o Ws1 \o LitI("me") \o Ws1 \o LitI("be") \o Ws1
        \o LitI("helpful") \o <<One({":", "."})>> \o Ws1>>
\* Lines 196-210.
Prepositions ==
    <<"in", "on", "with", "using", "through", "into", "from", "for", "by",
      "and", "of">>
PrepositionMy ==
    [i \in DOMAIN Prepositions |->
        <<WB>> \o LitI(Prepositions[i]) \o LitI(" My") \o <<WB>>]
ImWithMy ==
    <<LitI("I'm ") \o <<Lazy(Star(NotNewline))>> \o LitI(" with My") \o <<WB>>>>
MyLower == <<<<WB>> \o Lit("My ") \o <<One(Lowers)>>>>
\* Lines 244-245.
MyXProjects ==
    <<<<WB>> \o LitI("My") \o Ws1 \o <<Plus(One(WordChars))>> \o Ws1
        \o LitI("projects")>>
IVerbedInMy ==
    <<<<WB>> \o LitI("I") \o Ws1 \o <<Plus(One(Letters))>> \o LitI("ed") \o Ws1
        \o LitI("in") \o Ws1 \o LitI("My") \o <<WB>>>>

\* Lines 178-246, in their order.
RulesBeforeSplit ==
    <<Rule(ThinkBlock, ""),
      Rule(ThinkTag, ""),
      Rule(<<LitI("**Answer:**") \o Ws0>>, ""),
      Rule(<<LitI("Answer:") \o Ws0>>, ""),
      Rule(<<Ws0 \o LitI("Helpful") \o Ws1>>, " "),
      Once(Rule(<<HelpfulLead(LitI("be") \o Ws1), HelpfulLead(<<>>)>>, "")),
      Once(Rule(LetMeBeHelpful, "")),
      Rule(<<Lit("**")>>, ""),
      RuleBy(PrepositionMy, "$1 my"),
      RuleBy(ImWithMy, "I'm $1 with my"),
      Rule(<<LitI("I's got")>>, "I've got"),
      Rule(<<LitI("I's set")>>, "I'm set"),
      RuleBy(MyLower, "my $1"),
      Rule(<<LitI("Abdul Mohiz is expected")>>, "I'm expected"),
      Rule(<<LitI("Abdul Mohiz is")>>, "I am"),
      Rule(<<LitI("Abdul Mohiz has")>>, "I have"),
      Rule(<<LitI("Abdul Mohiz will")>>, "I will"),
      Rule(<<LitI("Abdul Mohiz was")>>, "I was"),
      Rule(<<LitI("Abdul Mohiz's")>>, "my"),
      Rule(<<LitI("Abdul Mohiz")>>, "I"),
      Rule(<<LitI("He is expected")>>, "I'm expected"),
      Rule(<<LitI("He will")>>, "I will"),
      Rule(<<LitI("He has")>>, "I have"),
      Rule(<<LitI("He was")>>, "I was"),
      Rule(Word("He"), "I"),
      Rule(Word("His"), "My"),
      Rule(Word("his"), "my"),
      Rule(<<LitI("I amn't")>>, "I'm not"),
      Rule(<<LitI("for I") \o <<WB>>>>, "for me"),
      Rule(<<LitI("I am's")>>, "my"),
      Rule(Word("I am"), "I'm"),
      Rule(<<LitI("I have provided")>>, "I've provided"),
      Rule(<<LitI("I have used")>>, "I've used"),
      Rule(<<LitI("I have worked")>>, "I've worked"),
      Rule(<<LitI("not familiar with I")>>, "haven't"),
      Rule(Word("I does not"), "I don't"),
      Rule(Word("I do not"), "I don't"),
      Rule(Word("I has"), "I've"),
      Rule(Word("I uses"), "I use"),
      Rule(Word("I works"), "I work"),
      RuleBy(MyXProjects, "my $1 projects"),
      RuleBy(IVerbedInMy, "match.replace"),
      Rule(<<LitI("So,") \o Ws0 \o Lit(":")>>, "")>>
\* Lines 265-269.
RulesAfterSplit ==
    <<Rule(<<LitI("The answer is that")>>, ""),
      Rule(<<LitI("The answer is")>>, ""),
      RuleBy(<<Lit(". ") \o <<One(Lowers)>>>>, ". ${letter.toUpperCase()}")>>

\* The replacement of the match m.
Replacement(rule, m) ==
    CASE rule.by = "text" -> rule.to
      \* line 197: the preposition as matched, then " my"
      [] rule.by = "$1 my" -> Slice(m, 0, Len(m) - 2) \o Chars("my")
      \* line 201: $1 is the match without its "I'm " and its " with My"
      [] rule.by = "I'm $1 with my" ->
            Chars("I'm ") \o Slice(m, 4, Len(m) - 8) \o Chars(" with my")
      \* line 210: $1 is the last character of the match
      [] rule.by = "my $1" -> Chars("my ") \o <<m[Len(m)]>>
      \* line 244: $1 is the run of word characters after the first spaces
      [] rule.by = "my $1 projects" ->
            With(2 + RunLen(One(Spaces), m, 2), LAMBDA a :
                Chars("my ") \o Slice(m, a, a + RunLen(One(WordChars), m, a))
                    \o Chars(" projects"))
      \* line 245: match.replace("My", "my")
      [] rule.by = "match.replace" ->
            ReplaceFirst(<<Lit("My")>>, m, LAMBDA x : Chars("my"))
      \* line 269
      [] rule.by = ". ${letter.toUpperCase()}" ->
            Chars(". ") \o <<toUpperCase(m[3])>>
ApplyRule(rule, s) ==
    IF rule.g THEN ReplaceAll(rule.re, s, LAMBDA m : Replacement(rule, m))
    ELSE ReplaceFirst(rule.re, s, LAMBDA m : Replacement(rule, m))
\* The rules from the i-th to the j-th, one after the other.
RECURSIVE ApplyRules(_, _, _, _)
ApplyRules(rules, i, j, s) ==
    IF i = j THEN ApplyRule(rules[i], s)
    ELSE With(ApplyRules(rules, i, (i + j) \div 2, s),
              LAMBDA next : ApplyRules(rules, ((i + j) \div 2) + 1, j, next))

\* Lines 249 and 351: text.split(/(?<=\.)(?=\s+[A-Z])/).
SentenceBreak == <<<<Behind({"."}), Ahead(Ws1 \o <<One(Uppers)>>)>>>>
SplitSentenceParts(text) ==
    With(text, LAMBDA s :
    With(Matches(SentenceBreak, s), LAMBDA cuts :
        [i \in 1..(Len(cuts) + 1) |->
            Slice(s, IF i = 1 THEN 0 ELSE cuts[i - 1][1],
                     IF i > Len(cuts) THEN Len(s) ELSE cuts[i][1])]))
\* Lines 249-262: with more than two parts, the parts that look unconverted
\* are dropped, unless that drops them all.
IThenMy == <<LitI("I") \o <<Lazy(Star(NotNewline))>> \o LitI("My")>>
Clean(part) ==
    /\ ~Includes(part, " has ")
    /\ ~Includes(part, " uses ")
    /\ ~Includes(part, "So, :")
    /\ ~Test(IThenMy, part)
FilterParts(text) ==
    With(SplitSentenceParts(text), LAMBDA sentenceParts :
    With(SelectSeq(sentenceParts, Clean), LAMBDA cleanedSentences :
        IF Len(sentenceParts) > 2 /\ Len(cleanedSentences) > 0
        THEN Join(cleanedSentences, <<" ">>)
        ELSE text))

\* Lines 272-285: repeated sentences are removed.
SentenceRe == <<<<Plus(NotOf({".", "!", "?"})), Plus(One({".", "!", "?"}))>>>>
Sentences(text) == MatchTexts(SentenceRe, text)
\* Line 277: the key of a sentence.
Normalized_CaseSensitive(sentence) ==
    Trim(ReplaceAll(<<Ws1>>, sentence, LAMBDA m : <<" ">>))
Normalized(sentence) ==
    Trim(ReplaceAll(<<Ws1>>, ToLower(sentence), LAMBDA m : <<" ">>))
\* A loop that keeps the sentences as they were matched.
RECURSIVE UniqueFrom_Untrimmed(_, _, _, _)
UniqueFrom_Untrimmed(sentences, i, sentenceMap, uniqueSentences) ==
    IF i > Len(sentences) THEN uniqueSentences
    ELSE With(Normalized(sentences[i]), LAMBDA normalized :
         With(IF normalized \in sentenceMap
              THEN <<sentenceMap, uniqueSentences>>
              ELSE <<sentenceMap \cup {normalized},
                     Append(uniqueSentences, sentences[i])>>,
              LAMBDA kept :
                 UniqueFrom_Untrimmed(sentences, i + 1, kept[1], kept[2])))
RECURSIVE UniqueFrom(_, _, _, _)
UniqueFrom(sentences, i, sentenceMap, uniqueSentences) ==
    IF i > Len(sentences) THEN uniqueSentences
    ELSE With(Normalized(sentences[i]), LAMBDA normalized :
         With(IF normalized \in sentenceMap
              THEN <<sentenceMap, uniqueSentences>>
              ELSE <<sentenceMap \cup {normalized},
                     Append(uniqueSentences, Trim(sentences[i]))>>,
              LAMBDA kept : UniqueFrom(sentences, i + 1, kept[1], kept[2])))
UniqueSentences(text) ==
    With(Sentences(text), LAMBDA sentences : UniqueFrom(sentences, 1, {}, <<>>))
Dedup(text) == Join(UniqueSentences(text), <<" ">>)

\* Lines 178-269: the text that reaches the removal of repeated sentences.
BeforeDedup(raw) ==
    With(ApplyRules(RulesBeforeSplit, 1, Len(RulesBeforeSplit), raw),
         LAMBDA t1 :
    With(FilterParts(t1), LAMBDA t2 :
        ApplyRules(RulesAfterSplit, 1, Len(RulesAfterSplit), t2)))
\* Lines 178-285: the text before the question is looked at.
Transformed(raw) == With(BeforeDedup(raw), LAMBDA t3 : Dedup(t3))

\* Lines 291-346: questions answered without the text.
\* The alternatives pre \o w \o post, for each w.
Each(pre, words, post) == [i \in DOMAIN words |-> pre \o LitI(words[i]) \o post]
Greeting ==
    LET tail == <<Star(One(Spaces \cup {"!"})), EOL>>
    IN  Each(<<BOL>>, <<"hi", "hello", "hey", "greetings", "howdy">>, tail)
        \o <<<<BOL>> \o LitI("hi") \o <<Plus(One({"i", "I"}))>> \o tail>>
        \o Each(<<BOL>>, <<"sup", "yo">>, tail)
HowAreYou ==
    <<<<BOL>> \o LitI("how are you") \o <<Opt(One({"?"}))>>,
      <<BOL>> \o LitI("how are you") \o <<One(Spaces)>>,
      <<BOL>> \o LitI("how are you") \o <<EOL>>>>
    \o Each(<<BOL>>, <<"how's it going", "how is it going", "how's you been",
                       "how have you been">>, <<>>)
    \o <<<<BOL>> \o LitI("what") \o <<Opt(One({"'"}))>> \o LitI("s up")
            \o <<EOL>>>>
Shopify ==
    Each(<<>>, <<"shopify", "used shopify", "shopify experience",
                 "worked with shopify", "worked on shopify">>, <<>>)
Operators == {"+", "-", "*", "/"}
Operation ==
    <<Plus(One(Digits)), Star(One(Spaces)), One(Operators), Star(One(Spaces)),
      Plus(One(Digits))>>
mathPattern ==
    <<Operation \o Ws0 \o Lit("=") \o Ws0 \o Lit("?"),
      LitI("what's") \o Ws1 \o Operation,
      LitI("what is") \o Ws1 \o Operation>>
WhatDay ==
    Each(LitI("what "), <<"day is it", "day is today", "day is now",
                          "month is it", "month is today", "month is now",
                          "year is it", "year is today", "year is now">>, <<>>)
WhatDate ==
    Each(LitI("what is the "), <<"date today", "date now", "time today",
                                 "time now">>, <<>>)
HowMany ==
    LET units == <<"days", "hours">>
        verbs == <<" are", " is">>
        preps == <<" in", " there in">>
        ofs == <<" a week", " a day">>
    IN  [i \in 1..16 |->
            LitI("how many ")
            \o LitI(units[((i - 1) \div 8) + 1])
            \o LitI(verbs[(((i - 1) \div 4) % 2) + 1])
            \o LitI(preps[(((i - 1) \div 2) % 2) + 1])
            \o LitI(ofs[((i - 1) % 2) + 1])]
Personal ==
    Each(<<WB>>, <<"age", "dob">>, <<WB>>)
    \o <<<<WB>> \o LitI("date") \o Ws1 \o LitI("of") \o Ws1 \o LitI("birth")
            \o <<WB>>>>
    \o Each(<<WB>>, <<"birthday", "born">>, <<WB>>)
    \o <<<<WB>> \o LitI("when") \o Ws1 \o LitI("were") \o Ws1 \o LitI("you")
            \o Ws1 \o LitI("born") \o <<WB>>,
         <<WB>> \o LitI("how") \o Ws1 \o LitI("old") \o <<WB>>>>
    \o Each(<<WB>>, <<"address", "location", "phone", "email", "contact",
                      "family", "parents", "married", "wife", "husband",
                      "children", "kids", "sibling", "religion",
                      "rethnicity">>, <<WB>>)

\* parseInt of a run of digits, and `${result}` of an integer.
DigitValue(d) == CHOOSE v \in 0..9 : Chars("0123456789")[v + 1] = d
RECURSIVE parseIntTo(_, _)
parseIntTo(ds, n) ==
    IF n = 0 THEN 0 ELSE 10 * parseIntTo(ds, n - 1) + DigitValue(ds[n])
parseInt(ds) == With(ds, LAMBDA x : parseIntTo(x, Len(x)))
RECURSIVE NatText(_)
NatText(n) ==
    IF n < 10 THEN <<Chars("0123456789")[n + 1]>>
    ELSE NatText(n \div 10) \o <<Chars("0123456789")[(n % 10) + 1]>>
IntText(n) == IF n < 0 THEN <<"-">> \o NatText(-n) ELSE NatText(n)
\* The long division of r by d, r < d, never ends: a remainder comes back.
RECURSIVE Recurs(_, _, _)
Recurs(r, d, seen) ==
    IF r = 0 THEN FALSE
    ELSE IF r \in seen THEN TRUE
    ELSE Recurs((10 * r) % d, d, seen \cup {r})
\* The digits after the point of r / d, r < d, of a division that ends.
RECURSIVE Fraction(_, _)
Fraction(r, d) ==
    IF r = 0 THEN <<>>
    ELSE NatText((10 * r) \div d) \o Fraction((10 * r) % d, d)
\* `${num1 / num2}` when the quotient has no finite decimal expansion: the
\* digits of the nearest double, which are not followed here.
Nearest(num1, num2) ==
    <<"${">> \o NatText(num1) \o <<"/">> \o NatText(num2) \o <<"}">>
\* Lines 316-323.  The operands tried are small: the numbers are exact, and
\* a quotient that ends has few digits, which are those of its double.
Calculate(num1, operator, num2) ==
    CASE operator = "+" -> IntText(num1 + num2)
      [] operator = "-" -> IntText(num1 - num2)
      [] operator = "*" -> IntText(num1 * num2)
      [] operator = "/" ->
            IF num2 = 0 THEN IF num1 = 0 THEN Chars("NaN") ELSE Chars("Infinity")
            ELSE IF num1 % num2 = 0 THEN IntText(num1 \div num2)
            ELSE IF Recurs(num1 % num2, num2, {}) THEN Nearest(num1, num2)
            ELSE NatText(num1 \div num2) \o <<".">> \o Fraction(num1 % num2, num2)
\* Line 309: the first operation in the message, as <<num1, operator, num2>>.
FirstOperation(originalMessage) ==
    With(Search(<<Operation>>, originalMessage, 0), LAMBDA m :
    With(Slice(originalMessage, m[1], m[2]), LAMBDA x :
    With(RunLen(One(Digits), x, 0), LAMBDA n1 :
    With(n1 + RunLen(One(Spaces), x, n1) + 1, LAMBDA op :
        <<parseInt(Slice(x, 0, n1)), x[op],
          parseInt(Slice(x, op + RunLen(One(Spaces), x, op), Len(x)))>>))))
\* Line 331: the date of the day in en-US long form.
Today == <<"toLocaleDateString">>
NoOverride == <<"no override">>
\* Lines 291-346: the fixed answer to the question, NoOverride if it has none.
Override(originalMessage) ==
    IF Test(Greeting, Trim(originalMessage))
    THEN Chars("Hi there! I'm Abdul Mohiz. Thanks for visiting my portfolio! Feel free to ask me anything about my experience, skills, projects, or background.")
    ELSE IF Test(HowAreYou, Trim(originalMessage))
    THEN Chars("I'm doing well, thanks for asking! I'm currently working on some exciting web development projects and continuing my studies in Computer Science. How can I help you today?")
    ELSE IF Test(Shopify, originalMessage)
    THEN Chars("Yes, I've worked with Shopify as a Designer on Upwork (2023-2024). I built e-commerce stores from scratch, optimized product pages for SEO, and managed inventory and customer interactions.")
    ELSE IF Test(mathPattern, originalMessage)
    THEN With(FirstOperation(originalMessage),
              LAMBDA op : Calculate(op[1], op[2], op[3]))
    ELSE IF Test(WhatDay, originalMessage) \/ Test(WhatDate, originalMessage)
    THEN Chars("It's ") \o Today \o Chars(".")
    ELSE IF Test(HowMany, originalMessage)
    THEN IF Includes(ToLower(originalMessage), "week")
         THEN Chars("There are 7 days in a week.")
         ELSE Chars("There are 24 hours in a day.")
    ELSE IF Test(Personal, originalMessage)
    THEN Chars("I prefer not to share that personal information.")
    ELSE NoOverride

\* Lines 349-363: a long answer is cut to its first two parts, or to the
\* sentence about work.
FirstWord(originalMessage) ==
    With(Search(<<Lit(" ")>>, originalMessage, 0), LAMBDA sp :
        IF sp = <<>> THEN originalMessage ELSE Slice(originalMessage, 0, sp[1]))
workPattern ==
    <<LitI("I've worked") \o <<Plus(NotOf({"."}))>> \o Lit("."),
      LitI("I have worked") \o <<Plus(NotOf({"."}))>> \o Lit("."),
      LitI("I worked") \o <<Plus(NotOf({"."}))>> \o Lit(".")>>
FirstFewSentences(text) ==
    With(SplitSentenceParts(text), LAMBDA parts :
        Join(SubSeq(parts, 1, IF Len(parts) < 2 THEN Len(parts) ELSE 2),
             <<" ">>))
Concise(text, originalMessage) ==
    IF Len(text) <= 200 THEN text
    ELSE With(FirstFewSentences(text), LAMBDA firstFewSentences :
         With(Search(workPattern, text, 0), LAMBDA workMatch :
            IF Len(firstFewSentences) > 20
                /\ IncludesText(firstFewSentences, FirstWord(originalMessage))
            THEN firstFewSentences
            ELSE IF (Includes(text, "I worked") \/ Includes(text, "I've worked")
                        \/ Includes(text, "I have worked"))
                    /\ workMatch # <<>>
            THEN Trim(Slice(text, workMatch[1], workMatch[2]))
            ELSE text))

\* Lines 366-375: list items get HTML line breaks.
IsList(text, originalMessage) ==
    /\ \/ IncludesText(text, <<Bullet, " ">>)
       \/ Test(<<<<One(Digits)>> \o Lit(".") \o <<One(Spaces)>>>>, text)
    /\ \/ Includes(ToLower(originalMessage), "skills")
       \/ Includes(ToLower(originalMessage), "project")
       \/ Includes(ToLower(originalMessage), "experience")
NumberedItem ==
    <<<<One(Digits)>> \o Lit(".") \o Ws1 \o <<Plus(NotOf({"."}))>>>>
BulletItem == <<<<One({Bullet})>> \o Ws1 \o <<Plus(NotOf({"."}))>>>>
\* The text of an item m after its marker of n characters and the spaces
\* \s+ has taken: all of them, but one less when nothing else is left for
\* [^.]+.
ItemText(m, n) ==
    With(RunLen(One(Spaces), m, n), LAMBDA run :
        Slice(m, n + (IF n + run < Len(m) THEN run ELSE run - 1), Len(m)))
FormatList(text) ==
    With(ReplaceAll(NumberedItem, text,
                    LAMBDA m : Chars("<br><br>") \o Slice(m, 0, 2)
                                  \o <<" ">> \o ItemText(m, 2)),
         LAMBDA t1 :
            ReplaceAll(BulletItem, t1,
                       LAMBDA m : Chars("<br>") \o <<Bullet, " ">>
                                     \o ItemText(m, 1)))

\* Lines 381-386: the model said it does not know.
DoesNotKnow ==
    Each(LitI("not provided in the "),
         <<"given context", "context", "information", "data">>, <<>>)
    \o Each(LitI("don't have "), <<"that", "this", "the">>, LitI(" information"))
    \o Each(LitI("no information "),
            <<"is available", "is provided", "available", "provided">>, <<>>)
    \o Each(<<>>, <<"unable to determine", "cannot determine", "don't know">>,
            <<>>)
NoInformation ==
    Chars("I don't have that information in my background. Feel free to ask me about my skills, education, or projects instead.")

\* A function that answers from the text whenever the text says something.
cleanModelResponse_TextFirst(text, originalMessage) ==
    With(Transformed(text), LAMBDA t :
        IF Trim(t) # <<>> THEN Trim(t)
        ELSE With(Override(originalMessage), LAMBDA fixed :
                IF fixed # NoOverride THEN fixed ELSE <<>>))
\* Lines 176-389.
cleanModelResponse(text, originalMessage) ==
    With(Override(originalMessage), LAMBDA fixed :
        IF fixed # NoOverride THEN fixed
        ELSE With(Transformed(text), LAMBDA t :
             With(Concise(t, originalMessage), LAMBDA short :
                IF IsList(short, originalMessage) THEN FormatList(short)
                ELSE IF Test(DoesNotKnow, Trim(short)) THEN NoInformation
                ELSE Trim(short))))

\* The raw completions tried: up to MaxParts of these pieces, separated by a
\* space.
Pieces ==
    <<Chars("His work is good."),
      Chars("He builds apps."),
      Chars("I use React."),
      Chars("i use  react."),
      Chars("1. React"),
      Chars("Hello there"),
      Chars("<think>hm</think>"),
      <<Bullet>> \o Chars(" Node.")>>
RawTexts ==
    {Join(ps, <<" ">>) : ps \in SeqsUpTo(Range(Pieces), MaxParts)}
\* The questions tried: two that no override answers, one of them about
\* skills, and a greeting.
Questions ==
    {Chars("Tell me more"), Chars("Your skills?"), Chars("hi")}

InitClean ==
    /\ InitRoute
    /\ emit = NoEmit
    /\ client = NoClient
    /\ \E text \in RawTexts, originalMessage \in Questions :
          norm = [NoNorm EXCEPT !.phase = "raw", !.text = text,
                                !.originalMessage = originalMessage]
\* Lines 516 and 562: the completion is cleaned for the question.
CleanResponse ==
    /\ norm.phase = "raw"
    /\ norm' = [norm EXCEPT !.phase = "cleaned",
                            !.out = cleanModelResponse(norm.text,
                                                       norm.originalMessage)]
    /\ UNCHANGED <<routeVars, emit, client>>
\* The cleaned text is cleaned once more for the same question.
CleanAgain ==
    /\ norm.phase = "cleaned"
    /\ norm' = [norm EXCEPT !.phase = "again",
                            !.again = cleanModelResponse(norm.out,
                                                         norm.originalMessage)]
    /\ UNCHANGED <<routeVars, emit, client>>
NextClean == CleanResponse \/ CleanAgain
SpecClean == InitClean /\ [][NextClean]_vars

\* ------------------------------------------- cleanModelResponse, by question
\* The questions of the form "what is a op b", with and without "?".
Operands == 0..MaxOperand
Asked(a, op, b) ==
    Chars("what is ") \o NatText(a) \o <<" ", op, " ">> \o NatText(b)
MathQuestions ==
    {Asked(a, op, b) : a \in Operands, op \in Operators, b \in Operands}
    \cup {Asked(a, op, a) \o <<"?">> : a \in Operands, op \in Operators}
\* Questions for each override, questions that match several, and one that
\* matches none.
IntentQuestions ==
    {Chars("hi"), Chars("Hello!"), Chars("hiii "),
     Chars("how are you?"), Chars("what's up"),
     Chars("Used Shopify?"),
     Chars("7*6=?"), Chars("what's 12/4"),
     Chars("what day is it"), Chars("what is the date today"),
     Chars("how many days are in a week"), Chars("how many hours are in a day"),
     Chars("what's your address"), Chars("how old are you"),
     Chars("what's your address? what is 2 + 2"),
     Chars("what year is it and how old are you"),
     Chars("what's your address on shopify"),
     Chars("what is 2 + 2 on shopify"),
     Chars("1 + 1 what is 7 * 6"),
     Chars("Tell me more")}
IntentTexts ==
    {<<>>, Chars("I use React."), Chars("His work is good. I don't know.")}
InitIntent ==
    /\ InitRoute
    /\ emit = NoEmit
    /\ client = NoClient
    /\ \E text \in IntentTexts,
          originalMessage \in IntentQuestions \cup MathQuestions :
          norm = [NoNorm EXCEPT !.phase = "raw", !.text = text,
                                !.originalMessage = originalMessage]
SpecIntent == InitIntent /\ [][NextClean]_vars

\* ------------------------------------------- cleanModelResponse, by raw text
\* Completions that say the model does not know, lists, and completions
\* with reasoning in <think> tags: closed, unclosed, nested, in capitals, and
\* with a tag inside a tag.  The reasoning is always "hm.".
Cores ==
    {Chars("I use React."),
     Chars("I don't know."),
     Chars("This is not provided in the context."),
     Chars("I cannot determine that."),
     Chars("1. I don't know."),
     <<Bullet>> \o Chars(" I don't have that information."),
     Chars("1. React. 2. Node."),
     <<Bullet>> \o Chars(" Node."),
     Chars("Hello there"),
     Chars("<think>hm.</think> I use React."),
     Chars("<THINK>hm.</THINK> I use React."),
     Chars("<think>hm. I use React."),
     Chars("<think>hm.<think>hm.</think>hm.</think> I use React."),
     Chars("<thi<think>nk>hm. I use React.")}
\* The whitespace tried before and after a completion.
Pads == {<<>>, <<" ">>, <<"\n", "\t">>}
ReplyTexts == {l \o core \o r : l \in Pads, core \in Cores, r \in Pads}
\* Questions that no override answers; two of them ask for a list.
ReplyQuestions ==
    {Chars("Tell me more"), Chars("Your skills?"), Chars("any Project")}
InitReply ==
    /\ InitRoute
    /\ emit = NoEmit
    /\ client = NoClient
    /\ \E text \in ReplyTexts, originalMessage \in ReplyQuestions :
          norm = [NoNorm EXCEPT !.phase = "raw", !.text = text,
                                !.originalMessage = originalMessage]
SpecReply == InitReply /\ [][NextClean]_vars

\* ---------------------------------------------- cleanModelResponse, by prose
\* Completions in the third person: each way of naming the person, followed
\* by each of the continuations the rules of lines 213-226 look for, by text
\* that a later rule removes (lines 246, 266) and by a list marker (line
\* 370); alone and after a sentence.
Subjects ==
    {Chars("Abdul Mohiz"), Chars("ABDUL MOHIZ"), Chars("Abdul Mohiz's"),
     Chars("He"), Chars("he"), Chars("His"), Chars("HIS")}
Tails ==
    {Chars(" is expected to win."), Chars(" has skills."), Chars(" will come."),
     Chars(" was there."), Chars(" work is good."), Chars("So, : works."),
     Chars("1. React.")}
Leads == {<<>>, Chars("I know. ")}
PersonaTexts ==
    {lead \o subject \o tail :
        lead \in Leads, subject \in Subjects, tail \in Tails}
        \cup {Chars("Abdul The answer isMohiz works.")}
\* Completions of one to three sentences: with and without a last
\* terminator, with " has " and " uses ", and with a repeated sentence.
SentenceTexts ==
    {Chars("Hello there"),
     Chars("I use React. And Node"),
     Chars("It has hooks."),
     Chars("I use React. It has hooks. Done well."),
     Chars("I use React. Node uses V8. Done well."),
     Chars("I use React. I use React. Fine."),
     Chars("I use React. i use  react."),
     Chars("I use React. Done well. Fine.")}
InitProse ==
    /\ InitRoute
    /\ emit = NoEmit
    /\ client = NoClient
    /\ \E text \in PersonaTexts \cup SentenceTexts,
          originalMessage \in ReplyQuestions :
          norm = [NoNorm EXCEPT !.phase = "raw", !.text = text,
                                !.originalMessage = originalMessage]
SpecProse == InitProse /\ [][NextClean]_vars

\* ------------------------------------------------- the client, ChatContainer
\* The server is seen through its answers only: each fetch ends with one of
\* the answers route.ts can give, or is rejected.  Line numbers are those of
\* ChatContainer.tsx.
RunningHandlers(c) == {h \in HandlerIds : c.handlers[h].pc \notin {"none", "done"}}
\* ChatInput's isLoading prop (line 409) and its uses (ChatInput.tsx, lines
\* 15, 46, 50).
InputBlocked(c) == c.isLoading \/ c.isStreaming

\* Lines 55-75: checkSystemStatus up to its await.  The effect's closure was
\* made by the first render, so hasInitialized is false whenever it is read.
SeenByEffect == NoClient.hasInitialized
checkSystemStatus(c) ==
    IF SeenByEffect \/ c.isInitializing THEN c
    ELSE [c EXCEPT !.isInitializing = TRUE, !.isLoading = TRUE,
                   !.systemMessage = StatusChecking,
                   !.check = "fetching", !.checks = @ + 1]
\* Lines 107, 55-75: the component mounts and the effect runs.
Mount ==
    /\ client.mounted = "no"
    /\ client' = checkSystemStatus([client EXCEPT !.mounted = "yes"])
    /\ UNCHANGED <<routeVars, textVars>>
\* Lines 102-104: the finally block of checkSystemStatus.
StatusFinally(c) == [c EXCEPT !.isLoading = FALSE, !.check = "idle"]
\* Lines 77-89: the answer is ready; the welcome message is scheduled.
StatusReady ==
    /\ client.check = "fetching"
    /\ client' = StatusFinally([client EXCEPT
                     !.isSystemReady = TRUE, !.hasInitialized = TRUE,
                     !.welcomeTimer = TRUE])
    /\ UNCHANGED <<routeVars, textVars>>
\* Lines 90-93: the answer is initializing; the next check is scheduled.
StatusInitializing ==
    /\ client.check = "fetching"
    /\ client' = StatusFinally([client EXCEPT
                     !.systemMessage = StatusWaiting, !.pollTimer = TRUE])
    /\ UNCHANGED <<routeVars, textVars>>
\* Lines 94-97: the answer is error.
StatusError ==
    /\ client.check = "fetching"
    /\ \E error \in {BackendError, LoadError} :
          client' = StatusFinally([client EXCEPT
                        !.systemMessage = "Error: " \o error,
                        !.isSystemError = TRUE])
    /\ UNCHANGED <<routeVars, textVars>>
\* Lines 98-101: fetch or response.json() rejected.
StatusFailed ==
    /\ client.check = "fetching"
    /\ client' = StatusFinally([client EXCEPT
                     !.systemMessage = StatusUnreachable,
                     !.isSystemError = TRUE])
    /\ UNCHANGED <<routeVars, textVars>>
\* Line 93: the timer of setTimeout(checkSystemStatus, 3000) is due.
PollTimerFires ==
    /\ client.pollTimer
    /\ client' = checkSystemStatus([client EXCEPT !.pollTimer = FALSE])
    /\ UNCHANGED <<routeVars, textVars>>

\* Lines 169-180 and 273-281: a hidden, empty placeholder.
Placeholder(kind, pc) ==
    [NoHandler EXCEPT !.kind = kind, !.pc = pc]
\* Lines 183-195: updateStreamedMessage.
updateStreamedMessage(handler, content) ==
    [handler EXCEPT !.content = content, !.hidden = (Trim(content) = <<>>)]
\* Lines 260 and 323: the text shown for an error that is an Error.
StreamedApology ==
    Chars("Sorry, I couldn't process your message due to a technical issue.")
StandardApology == Chars("Sorry, I couldn't respond to that.")
\* Line 305: the text shown in place of an empty answer.
NoResponseText == Chars("Sorry, I couldn't process that request.")
\* A finally block that leaves isLoading as it is.
StreamedFinally_KeepsLoading(c) ==
    [c EXCEPT !.isStreaming = FALSE, !.streamAbortController = Null]
\* Lines 263-267: the finally block of handleStreamedResponse.
StreamedFinally(c) ==
    [c EXCEPT !.isStreaming = FALSE, !.isLoading = FALSE,
              !.streamAbortController = Null]
\* Lines 255-262 and 263-267: the catch block, then the finally block.
StreamedCatch(c, h, outcome) ==
    StreamedFinally([c EXCEPT
        !.handlers[h] = [updateStreamedMessage(@, StreamedApology)
                           EXCEPT !.pc = "done", !.outcome = outcome]])
\* Lines 254 and 263-267: the end of the try block, then the finally block.
StreamedEnd(c, h) ==
    StreamedFinally([c EXCEPT !.isSystemReady = TRUE,
                              !.handlers[h].pc = "done",
                              !.handlers[h].outcome = "success"])

\* Lines 86-89, 198-213: the welcome timer is due; handleStreamedResponse
\* starts and types the first character.
WelcomeTimerFires ==
    /\ client.welcomeTimer
    /\ client.started < MaxHandlers
    /\ LET h == client.started + 1
       IN  client' = [client EXCEPT
              !.welcomeTimer = FALSE, !.started = h, !.isStreaming = TRUE,
              !.handlers[h] =
                  [updateStreamedMessage(Placeholder("welcome", "typing"),
                                         <<"a">>)
                     EXCEPT !.i = 1]]
    /\ UNCHANGED <<routeVars, textVars>>
\* Lines 207-213, 254, 263-267: the 30 ms timer is due; the next character
\* is typed, or the loop and the handler end.
TypeChar(h) ==
    /\ client.handlers[h].pc = "typing"
    /\ client' =
          IF client.handlers[h].i < WelcomeChars
          THEN [client EXCEPT
                  !.handlers[h] =
                      [updateStreamedMessage(@, @.content \o <<"a">>)
                         EXCEPT !.i = @ + 1]]
          ELSE StreamedEnd(client, h)
    /\ UNCHANGED <<routeVars, textVars>>

\* ChatInput.tsx lines 13-18 and lines 335-358, 198-228 or 271-298: the user
\* submits a text that is not blank; the handler runs up to its fetch.
SendMessage(isStreamed) ==
    /\ client.mounted = "yes"
    /\ ~InputBlocked(client)
    /\ ~client.isLoading
    /\ client.started < MaxHandlers
    /\ LET h == client.started + 1
       IN  client' =
             IF isStreamed
             THEN [client EXCEPT
                     !.isLoading = TRUE, !.isStreaming = TRUE, !.started = h,
                     !.streamAbortController = h,
                     !.handlers[h] = Placeholder("streamed", "fetch")]
             ELSE [client EXCEPT
                     !.isLoading = TRUE, !.started = h,
                     !.handlers[h] = Placeholder("standard", "fetch")]
    /\ UNCHANGED <<routeVars, textVars>>
Awaiting(h, kind, pc) ==
    /\ client.handlers[h].kind = kind
    /\ client.handlers[h].pc = pc
    /\ ~client.handlers[h].aborted
\* Lines 221-239: the response has arrived with an ok status and a body.
StreamResponseOk(h) ==
    /\ Awaiting(h, "streamed", "fetch")
    /\ client' = [client EXCEPT !.handlers[h].pc = "reading"]
    /\ UNCHANGED <<routeVars, textVars>>
\* Lines 230-232, 255-267: the response has a status that is not ok.
StreamHttpError(h) ==
    /\ Awaiting(h, "streamed", "fetch")
    /\ client' = StreamedCatch(client, h, "http_error")
    /\ UNCHANGED <<routeVars, textVars>>
\* Lines 221, 255-267: fetch rejected, the server was not reached.
StreamFetchRejected(h) ==
    /\ Awaiting(h, "streamed", "fetch")
    /\ client' = StreamedCatch(client, h, "network_error")
    /\ UNCHANGED <<routeVars, textVars>>
ChunkTexts == {<<"a">>, <<" ">>}
\* Lines 243-251: a chunk has been read.
ReadChunk(h) ==
    /\ Awaiting(h, "streamed", "reading")
    /\ client.handlers[h].i < MaxChunks
    /\ \E chunk \in ChunkTexts :
          client' = [client EXCEPT
              !.handlers[h] =
                  [updateStreamedMessage(@, @.content \o chunk)
                     EXCEPT !.i = @ + 1]]
    /\ UNCHANGED <<routeVars, textVars>>
\* Lines 243-244, 254, 263-267: the stream has ended.
ReadDone(h) ==
    /\ Awaiting(h, "streamed", "reading")
    /\ client' = StreamedEnd(client, h)
    /\ UNCHANGED <<routeVars, textVars>>
\* Lines 243, 255-267: reader.read() rejected, the stream broke.
ReadError(h) ==
    /\ Awaiting(h, "streamed", "reading")
    /\ client' = StreamedCatch(client, h, "network_error")
    /\ UNCHANGED <<routeVars, textVars>>
\* Lines 110-116: the component unmounts; the controller in the ref, if any,
\* aborts its request.
Unmount ==
    /\ client.mounted = "yes"
    /\ client' =
          IF client.streamAbortController # Null
          THEN [client EXCEPT
                  !.mounted = "gone",
                  !.handlers[client.streamAbortController].aborted = TRUE]
          ELSE [client EXCEPT !.mounted = "gone"]
    /\ UNCHANGED <<routeVars, textVars>>
\* Lines 221 or 243, 255-267: the aborted fetch or read rejects.
AbortRejects(h) ==
    /\ client.handlers[h].kind = "streamed"
    /\ client.handlers[h].pc \in {"fetch", "reading"}
    /\ client.handlers[h].aborted
    /\ client' = StreamedCatch(client, h, "abort")
    /\ UNCHANGED <<routeVars, textVars>>

\* Lines 330-332: the finally block of handleStandardResponse.
StandardFinally(c) == [c EXCEPT !.isLoading = FALSE]
\* Lines 285-312, 330-332: the answer has arrived; data.response or, when it
\* is empty or missing, the fixed text is shown.
StandardOk(h) ==
    /\ Awaiting(h, "standard", "fetch")
    /\ \E response \in {<<>>, <<"a">>, <<" ">>} :
          client' = StandardFinally([client EXCEPT
              !.isSystemReady = TRUE,
              !.handlers[h] =
                  [@ EXCEPT !.pc = "done", !.outcome = "success",
                            !.content = IF response = <<>> THEN NoResponseText
                                        ELSE response,
                            !.hidden = FALSE]])
    /\ UNCHANGED <<routeVars, textVars>>
\* Lines 313-332: the catch block, then the finally block.
StandardCatch(c, h, outcome) ==
    StandardFinally([c EXCEPT
        !.handlers[h] = [@ EXCEPT !.pc = "done", !.outcome = outcome,
                                  !.content = StandardApology,
                                  !.hidden = FALSE]])
\* Lines 295-297, 313-332: the response has a status that is not ok.
StandardHttpError(h) ==
    /\ Awaiting(h, "standard", "fetch")
    /\ client' = StandardCatch(client, h, "http_error")
    /\ UNCHANGED <<routeVars, textVars>>
\* Lines 285-293, 313-332: fetch or response.json() rejected.
StandardRejected(h) ==
    /\ Awaiting(h, "standard", "fetch")
    /\ client' = StandardCatch(client, h, "network_error")
    /\ UNCHANGED <<routeVars, textVars>>

HandlerStep(h) ==
    \/ TypeChar(h)
    \/ StreamResponseOk(h)
    \/ StreamHttpError(h)
    \/ StreamFetchRejected(h)
    \/ ReadChunk(h)
    \/ ReadDone(h)
    \/ ReadError(h)
    \/ AbortRejects(h)
    \/ StandardOk(h)
    \/ StandardHttpError(h)
    \/ StandardRejected(h)
NextClient ==
    \/ Mount
    \/ StatusReady
    \/ StatusInitializing
    \/ StatusError
    \/ StatusFailed
    \/ PollTimerFires
    \/ WelcomeTimerFires
    \/ \E isStreamed \in BOOLEAN : SendMessage(isStreamed)
    \/ Unmount
    \/ \E h \in HandlerIds : HandlerStep(h)
SpecClient == Init /\ [][NextClient]_vars

\* ------------------------------------------------------------------ claims
\* A step in which request r calls initialize() (lines 414, 432).
CallsInitialize(r) == req[r].pc = "json" /\ req'[r].pc = "await_init"
\* A step in which the promise request r awaits is consumed (lines 415-422,
\* 433-445).
LeavesInitialize(r) == req[r].pc = "await_init" /\ req'[r].pc # "await_init"
\* A step in which build b throws.
Fails(b) == builds[b].pc \in Running /\ builds'[b].pc = "rejected"
Uninitialized == ~isInitializing /\ ~isInitialized /\ initPromise = Null
\* The two ways an initialization failure is reported (lines 418-421, 441-444).
InitFailureResponse(resp) ==
    \/ resp.key = "status:error"
    \/ resp.status = 500 /\ resp.key = "error" /\ resp.value = InitErrorText

\* C1: at every moment at most one build is in flight, whatever the order in
\* which the callers of initialize() and the startup call's rejection handler
\* run; the build in flight is the one in initPromise, and every caller still
\* waiting in initialize() waits for it, so that concurrent calls made from
\* Uninitialized have started one build between them.
AtMostOneBuildInFlight ==
    /\ Cardinality(InFlight) <= 1
    /\ \A b \in InFlight : isInitializing /\ initPromise = b
    /\ \A r \in Requests :
          (req[r].pc = "await_init" /\ ~InitSettled(r)) => req[r].build \in InFlight
\* The startup build has failed and its handler has run; every request has
\* called initialize() since, and all of them wait for the one retry build.
CallersShareOneRetry ==
    /\ startup = "done"
    /\ buildStarts = 2
    /\ InFlight = {2}
    /\ \A r \in Requests : req[r].pc = "await_init" /\ req[r].build = 2

\* C2: a caller that invokes initialize() while a build is in flight joins
\* that build, starts none of its own, and when it goes on the build has
\* settled and it goes on with that build's outcome (its chain, or its error).
WaitersShareTheBuild ==
    /\ [][\A r \in Requests : (CallsInitialize(r) /\ InFlight # {}) =>
            /\ req'[r].via = "joined"
            /\ req'[r].build \in InFlight
            /\ buildStarts' = buildStarts]_vars
    /\ [][\A r \in Requests :
            (LeavesInitialize(r) /\ req[r].via \in {"joined", "started"}) =>
               /\ builds[req[r].build].pc \in Settled
               /\ builds[req[r].build].pc = "rejected" =>
                     /\ InitFailureResponse(req'[r].resp)
                     /\ req'[r].resp.key = "status:error" =>
                           req'[r].resp.value = builds[req[r].build].error
               /\ builds[req[r].build].pc = "resolved" =>
                     /\ ~InitFailureResponse(req'[r].resp)
                     /\ req[r].message # "system_check" =>
                           req'[r].chainToUse = req[r].build]_vars

\* A caller that joined a build started by someone else goes on with the
\* chain that build made.
JoinerGotChain ==
    \E r \in Requests :
        /\ req[r].via = "joined"
        /\ req[r].llm = "pending"
        /\ req[r].chainToUse = chain
        /\ builds[req[r].chainToUse].pc = "resolved"

\* C3: the step in which a build fails leaves isInitializing false,
\* isInitialized false and initPromise null; initPromise never holds a
\* rejected promise; and an initialize() call made in that state starts a
\* new build, which is then the one in initPromise.
FailureResetsForRetry ==
    /\ [](initPromise # Null => builds[initPromise].pc # "rejected")
    /\ [][\A b \in BuildIds : Fails(b) => Uninitialized']_vars
    /\ [][\A r \in Requests : (CallsInitialize(r) /\ Uninitialized) =>
            /\ req'[r].via = "started"
            /\ buildStarts' = buildStarts + 1
            /\ builds[req'[r].build].pc = "none"
            /\ builds'[req'[r].build].pc = "probe"
            /\ initPromise' = req'[r].build
            /\ isInitializing']_vars
\* A build has failed and the next call has started a fresh one.
RetryStarted ==
    \E b \in BuildIds, r \in Requests :
        /\ b > 1
        /\ builds[b - 1].pc = "rejected"
        /\ builds[b].pc = "probe"
        /\ req[r].via = "started" /\ req[r].build = b
        /\ initPromise = b

\* C4: once a build has succeeded, isInitialized stays true, vectorStore and
\* chain keep their values, no build is started any more, and a call of
\* initialize() takes the cached path and gives the caller the cached chain.
ReadyIsPermanent ==
    /\ [][(\E b \in BuildIds : builds[b].pc = "resolved") =>
            /\ isInitialized'
            /\ vectorStore' = vectorStore
            /\ chain' = chain
            /\ buildStarts' = buildStarts]_vars
    /\ [][\A r \in Requests :
            (CallsInitialize(r) /\ \E b \in BuildIds : builds[b].pc = "resolved") =>
               /\ req'[r].via = "cached"
               /\ req'[r].build = chain
               /\ req'[r].build = vectorStore]_vars
\* After a failed build and a successful retry, a later call has been served
\* from the cache.
ServedFromCache ==
    \E r \in Requests :
        /\ req[r].via = "cached"
        /\ req[r].llm = "pending"
        /\ req[r].chainToUse = chain
        /\ buildStarts = 2
        /\ builds[1].pc = "rejected"
        /\ builds[2].pc = "resolved"

\* C5 as stated: only the caller that started the failing build is answered
\* with the initialization failure.
FailureOnlyToStarter ==
    [][\A r \in Requests :
          (LeavesInitialize(r) /\ InitFailureResponse(req'[r].resp)) =>
             req[r].via = "started"]_vars
\* C5 as amended: a caller is answered with an initialization failure exactly
\* when the build it awaited - started or joined - has failed, and the
\* failing step has reset the state for a retry.
FailureToAwaitersOnly ==
    /\ [][\A r \in Requests : LeavesInitialize(r) =>
            (InitFailureResponse(req'[r].resp) <=>
               /\ req[r].via \in {"joined", "started"}
               /\ builds[req[r].build].pc = "rejected")]_vars
    /\ [][\A b \in BuildIds : Fails(b) => Uninitialized']_vars
    /\ [](\A r \in Requests : InitFailureResponse(req[r].resp) =>
            req[r].via \in {"joined", "started"})
\* A caller that joined a build started by someone else got its failure.
JoinerGotFailure ==
    \E r \in Requests :
        /\ req[r].pc = "done"
        /\ req[r].via = "joined"
        /\ InitFailureResponse(req[r].resp)

\* C6: whatever the probe observes, the step that ends it takes the build to
\* loading the corpus and changes nothing else; a build fails only from a
\* later stage.
ProbeIsNonFatal ==
    /\ [][\A b \in BuildIds : (builds[b].pc = "probe" /\ builds'[b] # builds[b]) =>
            /\ builds'[b].pc = "load"
            /\ shared' = shared]_vars
    /\ [][\A b \in BuildIds : Fails(b) =>
            builds[b].pc \in {"load", "split", "embed"}]_vars
\* A build whose probe found nothing has gone all the way.
BuiltWithoutProbe ==
    \E b \in BuildIds : builds[b].pc = "resolved" /\ ~builds[b].available

\* C7: a system_check request never calls the chain and never runs the
\* normalizer, its response is one of ready, initializing and error, and it
\* answers ready only when isInitialized holds and chain is not null at the
\* time of the response.
SystemCheckContract ==
    /\ [](\A r \in Requests : req[r].message = "system_check" =>
            /\ req[r].llm = "none"
            /\ ~req[r].cleaned
            /\ req[r].pc = "done" =>
                  \/ req[r].resp = [status |-> 200, key |-> "status:ready",
                                    value |-> MODEL_NAME]
                  \/ req[r].resp = [status |-> 200, key |-> "status:initializing",
                                    value |-> ""]
                  \/ req[r].resp.key = "status:error")
    /\ [][\A r \in Requests :
            (req[r].pc # "done" /\ req'[r].resp.key = "status:ready") =>
               (isInitialized /\ chain # Null)]_vars

\* A system_check that had to call initialize() itself has answered ready.
StatusReadyAfterOwnBuild ==
    \E r \in Requests :
        /\ req[r].message = "system_check"
        /\ req[r].via = "started"
        /\ req[r].resp.key = "status:ready"

\* C8: a request whose message is missing or empty is answered 400 in the
\* step that reads the body; that step calls neither initialize() nor the
\* chain and leaves the shared state as it was.
MissingMessageRejected ==
    [][\A r \in Requests :
          (req[r].pc = "json" /\ req'[r].message \in {Undefined, ""}) =>
             /\ req'[r].pc = "done"
             /\ req'[r].resp = [status |-> 400, key |-> "error",
                                value |-> "Message is required"]
             /\ req'[r].via = "none"
             /\ req'[r].llm = "none"
             /\ shared' = shared
             /\ builds' = builds
             /\ buildStarts' = buildStarts
             /\ llmCalls' = llmCalls]_vars
\* An empty message was rejected while a build was in flight.
EmptyMessageRejected ==
    \E r \in Requests :
        /\ req[r].message = ""
        /\ req[r].resp.status = 400
        /\ InFlight # {}

\* C9: once initialize() has been called, no step of a chat request changes
\* isInitializing, isInitialized, initPromise, vectorStore or chain; these
\* change only in a step in which a build starts, advances or settles.
ChatLeavesSharedState ==
    /\ [][\A r \in Requests :
            (req[r].pc \in {"await_init", "race", "s_call", "s_emit"}
               /\ req'[r] # req[r]) => shared' = shared]_vars
    /\ [][shared' # shared => builds' # builds]_vars

\* Of two chat requests, a streaming one has ended with its answer and the
\* other with the timeout, and the state is still Ready.
ChatsEndedStateReady ==
    \E r, q \in Requests :
        /\ req[r].pc = "done" /\ req[r].stream /\ req[r].llm = "returned"
        /\ req[q].pc = "done" /\ ~req[q].stream /\ req[q].llm = "pending"
        /\ isInitialized /\ chain # Null /\ chain = vectorStore

\* C10 as stated: the timeout covers the whole non-streaming request, the
\* wait in initialize() included: the request is never pending for longer
\* than the timeout.
WholeRequestDeadline ==
    \A r \in Requests : Pending(r) => req[r].waited + req[r].timer <= TimeoutTicks
\* C10 as amended: the timer bounds the race of line 559 only.  A request in
\* the race has been there for at most the timeout; it ends with the cleaned
\* answer, with the timeout error once the timer is due, or with a generation
\* error whose text differs from the timeout error's.
TimeoutText == "Error processing your request: " \o TimeoutMessage
GenerationDeadline ==
    \A r \in Requests :
        /\ req[r].pc = "race" => req[r].timer <= TimeoutTicks
        /\ (req[r].pc = "done" /\ req[r].llm # "none" /\ ~req[r].stream) =>
              \/ /\ req[r].llm = "returned"
                 /\ req[r].cleaned
                 /\ req[r].resp.status = 200 /\ req[r].resp.key = "response"
              \/ /\ req[r].llm = "pending"
                 /\ req[r].timer = TimeoutTicks
                 /\ req[r].resp.status = 500 /\ req[r].resp.value = TimeoutText
              \/ /\ req[r].llm = "failed"
                 /\ req[r].resp.status = 500 /\ req[r].resp.key = "error"
                 /\ req[r].resp.value # TimeoutText
\* A request has ended with the timeout error.
TimedOut ==
    \E r \in Requests : req[r].pc = "done" /\ req[r].resp.value = TimeoutText

\* C11: a request that is in the race answers once.  The step that ends the
\* race answers with the timeout error and leaves the chain call outstanding,
\* or answers with the chain call's outcome and leaves the timer outstanding;
\* the step in which the outstanding branch settles later changes neither the
\* response, nor any other request, nor the shared state; and a response,
\* once given, is never changed.
OneResponsePerRace ==
    /\ [][\A r \in Requests : req[r].pc = "done" =>
            req'[r].pc = "done" /\ req'[r].resp = req[r].resp]_vars
    /\ [][\A r \in Requests : (req[r].pc = "race" /\ req'[r].pc = "done") =>
            \/ /\ req'[r].loser = "llm"
               /\ req'[r].resp = [status |-> 500, key |-> "error",
                                  value |-> TimeoutText]
            \/ /\ req'[r].loser = "timer"
               /\ req'[r].llm \in {"returned", "failed"}
               /\ req'[r].resp.value # TimeoutText]_vars
    /\ [][\A r \in Requests :
            (req[r].pc = "done" /\ req'[r].loser # req[r].loser) =>
               /\ req'[r] = [req[r] EXCEPT !.loser = "none"]
               /\ \A q \in Requests \ {r} : req'[q] = req[q]
               /\ shared' = shared
               /\ builds' = builds
               /\ buildStarts' = buildStarts
               /\ llmCalls' = llmCalls]_vars
\* One request has timed out and its chain call has settled since; another
\* has answered and its timer has fired since.
LosersDiscarded ==
    \E r, q \in Requests :
        /\ req[r].pc = "done" /\ req[r].resp.value = TimeoutText
        /\ req[r].llm = "pending" /\ req[r].loser = "none"
        /\ req[q].pc = "done" /\ req[q].resp.key = "response"
        /\ req[q].llm = "returned" /\ req[q].loser = "none"

\* C12: a streaming request that has called the chain eventually has its
\* stream closed, whether or not the language model ever answers.
StreamEventuallyEnds ==
    \A r \in Requests : (req[r].pc = "s_call") ~> (req[r].pc = "done")

\* C13: a build that has started eventually settles, and a caller waiting in
\* initialize() eventually goes on, whether or not the embedding backend ever
\* answers.
BuildEventuallySettles ==
    /\ \A b \in BuildIds : (builds[b].pc \in Running) ~> (builds[b].pc \in Settled)
    /\ \A r \in Requests : (req[r].pc = "await_init") ~> (req[r].pc # "await_init")

\* C14: a chat request whose chain call has failed has ended with an error
\* outcome - a status that is not 2xx and an error payload - in streaming as
\* in non-streaming mode; the failure is never the text of a 200 response.
GenerationFailureIsError ==
    \A r \in Requests :
        (req[r].pc = "done" /\ req[r].llm = "failed") =>
            /\ req[r].resp.status >= 400
            /\ req[r].resp.key = "error"

\* C15: when the stream of an answer is closed, the text the client has
\* decoded from it is the answer the non-streaming response would have
\* carried; while the loop runs, what has been enqueued is the encoding of
\* the first i code units, in their order.
RECURSIVE EncodeEach(_)
EncodeEach(str) ==
    IF str = <<>> THEN <<>> ELSE encode(<<Head(str)>>) \o EncodeEach(Tail(str))
StreamEqualsAnswer ==
    /\ emit.phase # "off" => emit.wire = EncodeEach(SubSeq(emit.text, 1, emit.i))
    /\ emit.phase = "closed" => decode(emit.wire) = JsonAnswer(emit.text)

\* C16: once the caller has aborted a stream, the emitter produces no unit
\* beyond those delivered, raises no error, and the text the consumer holds
\* is not replaced by an error text.
CancelStopsCleanly ==
    \A r \in Requests :
        req[r].cancelled # "no" =>
            /\ req[r].sent = req[r].delivered
            /\ ~req[r].thrown
            /\ req[r].shown # "apology"

\* C17: the cancellation of one stream, and every later step of the
\* cancelled request, leaves the module state, the builds and every other
\* request as they were; a stream that was not cancelled and has been closed
\* after an answer has delivered all of it.
OtherStreamsComplete ==
    \A q \in Requests :
        (req[q].stream /\ req[q].pc = "done" /\ req[q].llm = "returned"
            /\ req[q].cancelled = "no")
        => req[q].sent = req[q].len /\ ~req[q].thrown
CancelTouchesOnlyItself ==
    \A r \in Requests :
        (req'[r].cancelled # "no" /\ req'[r] # req[r])
        => /\ shared' = shared
           /\ builds' = builds
           /\ \A q \in Requests \ {r} : req'[q] = req[q]
CancelIsLocal == []OtherStreamsComplete /\ [][CancelTouchesOnlyItself]_vars
CancelledBesideComplete ==
    \E r, q \in Requests :
        /\ r # q
        /\ req[r].cancelled = "stream" /\ req[r].thrown
        /\ req[q].stream /\ req[q].cancelled = "no" /\ req[q].pc = "done"
        /\ req[q].llm = "returned" /\ req[q].len > 0
        /\ req[q].sent = req[q].len
        /\ isInitialized /\ chain # Null

Cleaned == norm.phase \in {"cleaned", "again"}
NoOverrideFires == Override(norm.originalMessage) = NoOverride

\* C18: for a question that no override answers, cleaning the cleaned text
\* again for the same question gives the cleaned text.
CleanIsIdempotent ==
    (norm.phase = "again" /\ NoOverrideFires) => norm.again = norm.out

\* C19: the cleaned text of a completion that is not empty is not empty.
CleanedIsNotEmpty ==
    (Cleaned /\ norm.text # <<>>) => norm.out # <<>>

\* C20: for a question that no override answers, no two sentences of the
\* cleaned text have the same key (lowercased, runs of whitespace made one
\* space, trimmed), and the cleaned text is made of the first sentence of
\* each key, in their order and as they were written, of the text that
\* reached the removal of repeated sentences.
KeyOf(sentence) ==
    LET low == ToLower(sentence)
        one == [i \in DOMAIN low |-> IF low[i] \in Spaces THEN " " ELSE low[i]]
        kept == {i \in DOMAIN one : ~(one[i] = " " /\ i > 1 /\ one[i - 1] = " ")}
        nth(k) == CHOOSE i \in kept : Cardinality({j \in kept : j <= i}) = k
    IN  Trim([k \in 1..Cardinality(kept) |-> one[nth(k)]])
FirstOfEachKey(sentences) ==
    LET first == {i \in DOMAIN sentences :
                    \A j \in 1..(i - 1) : KeyOf(sentences[j]) # KeyOf(sentences[i])}
        nth(k) == CHOOSE i \in first : Cardinality({j \in first : j <= i}) = k
    IN  [k \in 1..Cardinality(first) |-> Trim(sentences[nth(k)])]
\* What lines 349-388 make of the text after the removal.
Finished(text, originalMessage) ==
    IF IsList(text, originalMessage) THEN FormatList(text)
    ELSE IF Test(DoesNotKnow, text) THEN NoInformation
    ELSE text
MatchesIntent(originalMessage) ==
    \/ Test(Greeting, Trim(originalMessage))
    \/ Test(HowAreYou, Trim(originalMessage))
    \/ Test(Shopify, originalMessage)
    \/ Test(mathPattern, originalMessage)
    \/ Test(WhatDay, originalMessage)
    \/ Test(WhatDate, originalMessage)
    \/ Test(HowMany, originalMessage)
    \/ Test(Personal, originalMessage)
GreetingText ==
    Chars("Hi there! I'm Abdul Mohiz. Thanks for visiting my portfolio! Feel free to ask me anything about my experience, skills, projects, or background.")
OverrideIgnoresText ==
    (Cleaned /\ MatchesIntent(norm.originalMessage)) =>
        /\ norm.out = Override(norm.originalMessage)
        /\ norm.out # NoOverride
        /\ \A text \in IntentTexts :
              cleanModelResponse(text, norm.originalMessage) = norm.out
        /\ norm.originalMessage = Chars("hi") => norm.out = GreetingText
\* The greeting was given for a raw text that says something else.
GreetedWhateverTheText ==
    /\ Cleaned
    /\ norm.originalMessage = Chars("hi")
    /\ norm.text = Chars("I use React.")
    /\ norm.out = GreetingText

\* C22: a question that refers to age, birth date, address, contact or
\* family is answered with the refusal, whatever the raw text and whatever
\* else the question contains.
RefusalText == Chars("I prefer not to share that personal information.")
PersonalIsRefused ==
    (Cleaned /\ Test(Personal, norm.originalMessage)) => norm.out = RefusalText

\* C23: the overrides are tried in the order greeting, small talk, factual
\* lookup, refusal of personal questions, arithmetic, date and day trivia: a
\* question that none of the first three matches and that matches both the
\* personal pattern and the arithmetic or a date pattern gets the refusal.
RefusalBeforeArithmetic ==
    (/\ Cleaned
     /\ ~Test(Greeting, Trim(norm.originalMessage))
     /\ ~Test(HowAreYou, Trim(norm.originalMessage))
     /\ ~Test(Shopify, norm.originalMessage)
     /\ Test(Personal, norm.originalMessage)
     /\ \/ Test(mathPattern, norm.originalMessage)
        \/ Test(WhatDay, norm.originalMessage)
        \/ Test(WhatDate, norm.originalMessage)
        \/ Test(HowMany, norm.originalMessage))
    => norm.out = RefusalText

\* C24: a question "what is a op b" is answered with the decimal text of
\* a op b, and the answer is computed from the expression that made the
\* pattern match.
\* t is the decimal text of a / b: digits, at most one point, no needless
\* zero, and its value times b is a.
IsQuotientText(t, a, b) ==
    LET points == {i \in DOMAIN t : t[i] = "."}
        p == IF points = {} THEN Len(t) + 1 ELSE CHOOSE i \in points : TRUE
        whole == SubSeq(t, 1, p - 1)
        frac == SubSeq(t, p + 1, Len(t))
        RECURSIVE Value(_, _)
        Value(ds, n) ==
            IF n = 0 THEN 0
            ELSE 10 * Value(ds, n - 1)
                    + (CHOOSE v \in 0..9 : NatText(v) = <<ds[n]>>)
        RECURSIVE Pow10(_)
        Pow10(k) == IF k = 0 THEN 1 ELSE 10 * Pow10(k - 1)
    IN  /\ b # 0
        /\ Cardinality(points) <= 1
        /\ \A i \in DOMAIN t : t[i] \in Digits \cup {"."}
        /\ whole # <<>>
        /\ Len(whole) > 1 => whole[1] # "0"
        /\ points # {} => (frac # <<>> /\ frac[Len(frac)] # "0")
        /\ Len(frac) <= 6
        /\ Value(whole \o frac, Len(whole) + Len(frac)) * b = a * Pow10(Len(frac))
IsAnswerTo(t, a, op, b) ==
    CASE op = "+" -> t = NatText(a + b)
      [] op = "-" -> t = IF a >= b THEN NatText(a - b)
                          ELSE <<"-">> \o NatText(b - a)
      [] op = "*" -> t = NatText(a * b)
      \* a quotient without finite expansion has no decimal text to compare
      [] op = "/" -> \/ b # 0 /\ Recurs(a % b, b, {})
                     \/ IsQuotientText(t, a, b)
AnswersTheQuestion ==
    Cleaned =>
        \A a \in Operands, op \in Operators, b \in Operands :
            norm.originalMessage \in {Asked(a, op, b), Asked(a, op, b) \o <<"?">>}
                => IsAnswerTo(norm.out, a, op, b)
\* The part of the question that mathPattern matches.
MatchedByMathPattern(originalMessage) ==
    LET m == Search(mathPattern, originalMessage, 0)
    IN  Slice(originalMessage, m[1], m[2])
ComputedFromTheMatch ==
    (/\ Cleaned
     /\ ~Test(Greeting, Trim(norm.originalMessage))
     /\ ~Test(HowAreYou, Trim(norm.originalMessage))
     /\ ~Test(Shopify, norm.originalMessage)
     /\ Test(mathPattern, norm.originalMessage))
    => LET op == FirstOperation(MatchedByMathPattern(norm.originalMessage))
       IN  norm.out = Calculate(op[1], op[2], op[3])
ArithmeticIsExact == AnswersTheQuestion /\ ComputedFromTheMatch

\* C25: for a question that no override answers, a text that still says,
\* after all earlier stages, the list formatting included, that the model
\* does not know, is replaced by the redirect sentence.
SaysItDoesNotKnow(text) ==
    \E phrase \in {"not provided in the context", "don't have that information",
                   "cannot determine", "don't know"} :
        IncludesText(ToLower(text), Chars(phrase))
BeforeFallback(text, originalMessage) ==
    LET short == Concise(Transformed(text), originalMessage)
    IN  IF IsList(short, originalMessage) THEN FormatList(short) ELSE Trim(short)
RedirectText ==
    Chars("I don't have that information in my background. Feel free to ask me about my skills, education, or projects instead.")
FallbackIsLastWord ==
    (/\ Cleaned /\ NoOverrideFires
     /\ SaysItDoesNotKnow(BeforeFallback(norm.text, norm.originalMessage)))
    => norm.out = RedirectText

\* C26: the cleaned text neither starts nor ends with whitespace.
OutputIsTrimmed ==
    (Cleaned /\ norm.out # <<>>) =>
        /\ norm.out[1] \notin Spaces
        /\ norm.out[Len(norm.out)] \notin Spaces
\* A completion with whitespace on both sides has left through the list
\* formatting.
PaddedListReturned ==
    /\ Cleaned /\ NoOverrideFires
    /\ norm.text # <<>>
    /\ norm.text[1] \in Spaces /\ norm.text[Len(norm.text)] \in Spaces
    /\ IsList(Concise(Transformed(norm.text), norm.originalMessage),
              norm.originalMessage)
    /\ IncludesText(norm.out, Chars("<br>"))

\* C30: for a question that no override answers, the cleaned text has no
\* <think> or </think> tag and none of the reasoning that stood between a
\* <think> and its </think>.
ReasoningIsRemoved ==
    (Cleaned /\ NoOverrideFires) =>
        /\ ~IncludesText(ToLower(norm.out), Chars("<think>"))
        /\ ~IncludesText(ToLower(norm.out), Chars("</think>"))
        /\ ~IncludesText(ToLower(norm.out), Chars("hm"))

\* C27: the step in which a chat request, streaming or not, learns that its
\* initialize() call has failed ends the request with the 500 error payload,
\* without a chain call and without a stream, and such a request stays that
\* way.  The chain is called only in the step in which a chat request leaves
\* initialize() with the chain of a build that has succeeded.
ChatGatedByInitialize ==
    /\ [][\A r \in Requests :
            (LeavesInitialize(r) /\ req[r].message # "system_check"
               /\ InitFailed(r)) =>
                 /\ req'[r].pc = "done"
                 /\ req'[r].resp = [status |-> 500, key |-> "error",
                                    value |-> InitErrorText]
                 /\ req'[r].llm = "none"
                 /\ req'[r].chainToUse = Null
                 /\ llmCalls' = llmCalls]_vars
    /\ [](\A r \in Requests :
            (req[r].pc = "done" /\ req[r].resp.value = InitErrorText) =>
                 /\ req[r].llm = "none"
                 /\ req[r].sent = 0
                 /\ req[r].resp.status = 500)
    /\ [][\A r \in Requests :
            (req[r].llm = "none" /\ req'[r].llm # "none") =>
                 /\ LeavesInitialize(r)
                 /\ req[r].message \notin {"system_check", Undefined, ""}
                 /\ req[r].build # Null
                 /\ req[r].via \in {"joined", "started"} =>
                       builds[req[r].build].pc = "resolved"
                 /\ chain = req[r].build
                 /\ req'[r].chainToUse = chain
                 /\ llmCalls' = llmCalls + 1]_vars
    /\ [][llmCalls' # llmCalls =>
            \E r \in Requests : req[r].llm = "none" /\ req'[r].llm = "pending"]_vars
\* A streaming chat request has ended with the initialization error, and a
\* later chat request has called the chain of the build that succeeded.
RefusedThenServed ==
    \E r, q \in Requests :
        /\ req[r].stream /\ req[r].pc = "done" /\ req[r].llm = "none"
        /\ req[r].resp.value = InitErrorText
        /\ req[q].message = ChatMessage /\ req[q].llm = "pending"
        /\ req[q].chainToUse = chain /\ chain # Null

\* C28: the step that handles a system_check answers initializing exactly
\* when a build is in flight and the state is not Ready, and that step ends
\* the request and touches no build.  Handled in the Uninitialized state, the
\* request calls initialize(), which starts one build, the only one in
\* flight; the request then waits until that build has settled and answers
\* ready when it has resolved and error, with the build's message, when it
\* has rejected.
Ready == isInitialized /\ chain # Null
HandlesStatus(r) ==
    req[r].pc = "json" /\ req'[r] # req[r] /\ req'[r].message = "system_check"
StatusFollowsBuild ==
    /\ [][\A r \in Requests : HandlesStatus(r) =>
            /\ req'[r].resp.key = "status:initializing" <=>
                  (InFlight # {} /\ ~Ready)
            /\ req'[r].resp.key = "status:initializing" =>
                  /\ req'[r].pc = "done"
                  /\ req'[r].via = "none"
                  /\ builds' = builds /\ shared' = shared
            /\ CallsInitialize(r) <=> (Uninitialized /\ InFlight = {})
            /\ CallsInitialize(r) =>
                  /\ req'[r].via = "started"
                  /\ buildStarts' = buildStarts + 1
                  /\ InFlight' = {req'[r].build}
                  /\ req'[r].resp = NoResp]_vars
    /\ [](\A r \in Requests :
            (req[r].pc = "await_init" /\ req[r].message = "system_check") =>
                  /\ req[r].via = "started"
                  /\ req[r].resp = NoResp)
    /\ [][\A r \in Requests :
            (LeavesInitialize(r) /\ req[r].message = "system_check") =>
                  /\ builds[req[r].build].pc \in Settled
                  /\ builds[req[r].build].pc = "resolved" =>
                        req'[r].resp = [status |-> 200, key |-> "status:ready",
                                        value |-> MODEL_NAME]
                  /\ builds[req[r].build].pc = "rejected" =>
                        req'[r].resp = [status |-> 200, key |-> "status:error",
                                        value |-> builds[req[r].build].error]]_vars
\* One system_check was answered initializing while the startup build ran;
\* the next one found the state Uninitialized, started a build of its own and
\* answered error when it failed.
InitializingThenOwnFailure ==
    \E r, q \in Requests :
        /\ req[r].pc = "done" /\ req[r].resp.key = "status:initializing"
        /\ req[q].pc = "done" /\ req[q].message = "system_check"
        /\ req[q].via = "started"
        /\ req[q].resp.key = "status:error"

\* C29: whenever isInitialized holds, vectorStore and chain are not null and
\* are those of one build, which has succeeded.  The step in which a build
\* throws after it has assigned the store leaves isInitialized false, and
\* the state is not Ready for as long as that store is the current one.
ReadyIsWhole ==
    /\ [](isInitialized =>
            /\ vectorStore # Null /\ chain # Null
            /\ vectorStore = chain
            /\ builds[chain].pc = "resolved")
    /\ [][\A b \in BuildIds :
            (Fails(b) /\ vectorStore' = b /\ vectorStore # b) =>
                 ~isInitialized' /\ Uninitialized']_vars
    /\ [](\A b \in BuildIds :
            (vectorStore = b /\ builds[b].pc = "rejected") => ~isInitialized)
\* A build has failed after it assigned its store: the store is there, the
\* chain is not, the state is not Ready, and a retry is on its way.
StoreWithoutChain ==
    \E b \in BuildIds :
        /\ builds[b].pc = "rejected"
        /\ vectorStore = b /\ chain = Null
        /\ ~isInitialized
        /\ InFlight # {}

\* C31: for a question that no override answers, the cleaned text has no
\* "Abdul Mohiz" and no word "he" or "his", in any letter case.
PersonaIsCorrected ==
    (Cleaned /\ NoOverrideFires) =>
        /\ ~IncludesText(ToLower(norm.out), Chars("abdul mohiz"))
        /\ ~Test(Word("he"), norm.out)
        /\ ~Test(Word("his"), norm.out)

\* C32: every sentence of the text that reaches the sentence filter of line
\* 249, the last one without a terminator included, is found, by its key, in
\* the text that leaves the removal of repeated sentences (line 285).
\* (Texts in which line 265 or 266 removes words are left aside.)
BeforeSplit(raw) == ApplyRules(RulesBeforeSplit, 1, Len(RulesBeforeSplit), raw)
Terminators == {".", "!", "?"}
\* The sentences of a text: each run up to and with its terminators, and
\* what follows the last terminator.
SentenceEnds(text) ==
    {i \in DOMAIN text :
        text[i] \in Terminators /\ (i = Len(text) \/ text[i + 1] \notin Terminators)}
SentencesOf(text) ==
    LET ends == SentenceEnds(text) \cup {Len(text)}
        from(e) == IF \E d \in ends : d < e
                   THEN 1 + CHOOSE d \in ends :
                              d < e /\ \A c \in ends : c < e => c <= d
                   ELSE 1
    IN  {s \in {SubSeq(text, from(e), e) : e \in ends \ {0}} : KeyOf(s) # <<>>}
OnlyRepeatsRemoved ==
    (/\ Cleaned
     /\ ~IncludesText(ToLower(BeforeSplit(norm.text)), Chars("the answer is"))) =>
        \A sentence \in SentencesOf(BeforeSplit(norm.text)) :
            IncludesText(KeyOf(Transformed(norm.text)), KeyOf(sentence))

\* C33: when the timer set after an initializing answer is due, the client
\* sends the next system_check.
PollingContinues ==
    [][(client.pollTimer /\ ~client'.pollTimer) =>
          /\ client'.check = "fetching"
          /\ client'.checks = client.checks + 1]_vars

\* C34: at most one response handler runs at a time, the input is blocked
\* for as long as one runs, and the step that ends a handler leaves the
\* flags and the abort controller alone while another handler runs.
HandlerEnds(h) ==
    /\ client.handlers[h].pc \notin {"none", "done"}
    /\ client'.handlers[h].pc = "done"
OneResponseAtATime ==
    /\ [](Cardinality(RunningHandlers(client)) <= 1)
    /\ [](RunningHandlers(client) # {} => InputBlocked(client))
    /\ [][\A h \in HandlerIds :
            (HandlerEnds(h) /\ RunningHandlers(client') # {}) =>
                /\ client'.isLoading = client.isLoading
                /\ client'.isStreaming = client.isStreaming
                /\ client'.streamAbortController
                      = client.streamAbortController]_vars

\* C35: when the handler of a message the user sent has ended, its
\* placeholder is shown and has a text.
Sent(h) == client.handlers[h].kind \in {"streamed", "standard"}
ReplyIsVisible ==
    \A h \in HandlerIds :
        (Sent(h) /\ client.handlers[h].pc = "done") =>
            /\ ~client.handlers[h].hidden
            /\ client.handlers[h].content # <<>>

====
